---- MODULE Spec2Model ----
(***************************************************************************)
(* The weather simulation engine of agri-nexus                             *)
(* (backend/app/services/simulation_engine.py), the REST control           *)
(* endpoints that drive it (backend/app/routers/simulation.py) and the     *)
(* websocket handlers that stream its readings                             *)
(* (backend/app/routers/sensors.py, backend/app/core/socket_manager.py).   *)
(*                                                                         *)
(* Numbers are fixed-point integers:                                       *)
(*   temperature, humidity, pressure, soil_moisture, wind_speed and        *)
(*   rain_intensity are counted in hundredths (28.0 degrees is 2800),      *)
(*   rainfall in thousandths of a millimetre (intensity * 2.5),            *)
(*   virtual_hour in 1/HourUnits of an hour (6.0 is 180),                  *)
(*   the hidden pressure trend in tenths,                                  *)
(*   decay_rate in thousandths, evaporation_factor in hundredths,          *)
(*   rain_base_probability in ten-thousandths.                             *)
(* Every random.gauss / random.random / random.randint / random.uniform    *)
(* draw of a tick is an input of the tick, chosen from a small set.        *)
(***************************************************************************)
EXTENDS Integers, Sequences, FiniteSets

VARIABLES
    config,          \* self.config   (SimulationConfig, never written after construction)
    state,           \* self.state    (WeatherState)
    alerts,          \* self._alerts  (list of AlertBase)
    pressure_trend,  \* self._pressure_trend
    returned,        \* what the last operation returned: <<reading>> after update_state
    last_op,         \* the operation that produced the current state
    last_args,       \* the arguments that operation was called with
    rain_calls,      \* trigger_rain calls since the last tick or reset (bounded)
    observed,        \* what a caller of trigger_rain keeps to compare with later
    active_connections,  \* manager.active_connections: farm_id -> set of websockets
    all_connections,     \* manager.all_connections
    handler,         \* websocket_sensor_stream of each websocket: where it
                     \* stands ("new", "streaming" when its next update_state
                     \* is due, "sleeping" in asyncio.sleep(2.0), "closed")
                     \* and its farm_id
    delivered,       \* the payloads sent on each websocket, oldest first
    interval,        \* the parity of the number of 2-second tick intervals passed
    interval_ticks,  \* the update_state calls made in the current interval
    running,         \* the coroutine the event loop is running, "none" when
                     \* every coroutine is suspended at an await
    call             \* the update_state call in progress: its phase, and once
                     \* begun its caller, its draws and the state it began from

\* the variables of the streaming layer
stream_vars == <<active_connections, all_connections, handler, delivered,
                 interval, interval_ticks, running, call>>

vars == <<config, state, alerts, pressure_trend, returned, last_op, last_args,
          rain_calls, observed, stream_vars>>

-----------------------------------------------------------------------------
(* Bounds of the model *)

\* update_state is enabled while tick_count is below this
MaxTicks == 2
\* trigger_rain (each call lowers the temperature by 3) is enabled this many
\* times between two ticks
MaxRainCalls == 1
\* update_state calls a caller makes after its trigger_rain call
MaxRainTestTicks == 5
\* update_state calls of a caller that collects the temperatures of a day
MaxDiurnalTicks == 24
\* update_state calls of a caller that watches the rain episodes
MaxEpisodeTicks == 12
\* payloads the subscribers receive, all together, while the control
\* requests run between them
MaxPayloads == 2
\* update_state calls of a caller that watches the pressure
MaxPressureTicks == 8
\* update_state calls of a caller that waits for a storm: the pressure falls
\* by at most 0.05 hPa per tick, 20 hPa in 400 ticks and 23.25 in 465
MaxStormTicks == 470

-----------------------------------------------------------------------------
(* Units *)

\* round(x, 2): the rounded fields are integers of hundredths
Centi == 100
\* virtual_hour is counted in 1/30 hour, the default 1/ticks_per_virtual_hour
HourUnits == 30
\* one day of virtual_hour units
DayUnits == 24 * HourUnits

Max(a, b) == IF a >= b THEN a ELSE b
Min(a, b) == IF a <= b THEN a ELSE b

\* round(n/d) for d > 0; Python's round() of a float that sits on a decimal
\* tie goes either way with the float's representation error: tieUp chooses.
RoundDiv(n, d, tieUp) ==
    LET q == n \div d
        r == n % d
    IN  IF 2 * r < d THEN q
        ELSE IF 2 * r > d THEN q + 1
        ELSE IF tieUp THEN q + 1 ELSE q

\* 10000 * sin(k * 0.5 degrees) for k = 0..180, rounded (index k + 1)
SinQuarter ==
    <<
      0, 87, 175, 262, 349, 436, 523, 610, 698, 785, 872, 958,
      1045, 1132, 1219, 1305, 1392, 1478, 1564, 1650, 1736, 1822, 1908, 1994,
      2079, 2164, 2250, 2334, 2419, 2504, 2588, 2672, 2756, 2840, 2924, 3007,
      3090, 3173, 3256, 3338, 3420, 3502, 3584, 3665, 3746, 3827, 3907, 3987,
      4067, 4147, 4226, 4305, 4384, 4462, 4540, 4617, 4695, 4772, 4848, 4924,
      5000, 5075, 5150, 5225, 5299, 5373, 5446, 5519, 5592, 5664, 5736, 5807,
      5878, 5948, 6018, 6088, 6157, 6225, 6293, 6361, 6428, 6494, 6561, 6626,
      6691, 6756, 6820, 6884, 6947, 7009, 7071, 7133, 7193, 7254, 7314, 7373,
      7431, 7490, 7547, 7604, 7660, 7716, 7771, 7826, 7880, 7934, 7986, 8039,
      8090, 8141, 8192, 8241, 8290, 8339, 8387, 8434, 8480, 8526, 8572, 8616,
      8660, 8704, 8746, 8788, 8829, 8870, 8910, 8949, 8988, 9026, 9063, 9100,
      9135, 9171, 9205, 9239, 9272, 9304, 9336, 9367, 9397, 9426, 9455, 9483,
      9511, 9537, 9563, 9588, 9613, 9636, 9659, 9681, 9703, 9724, 9744, 9763,
      9781, 9799, 9816, 9833, 9848, 9863, 9877, 9890, 9903, 9914, 9925, 9936,
      9945, 9954, 9962, 9969, 9976, 9981, 9986, 9990, 9994, 9997, 9998, 10000,
      10000
    >>

\* 10000 * math.sin of the angle k * (2*pi / DayUnits), k in 0 .. DayUnits-1
Sin(k) ==
    IF k <= 180 THEN SinQuarter[k + 1]
    ELSE IF k <= 360 THEN SinQuarter[360 - k + 1]
    ELSE IF k <= 540 THEN -SinQuarter[k - 360 + 1]
    ELSE -SinQuarter[720 - k + 1]

\* (hour - peak + 6) * (2*pi/24) as an index of Sin
Phase(hour, peak) == (hour - peak * HourUnits + 6 * HourUnits) % DayUnits

-----------------------------------------------------------------------------
(* Configuration and state records *)

\* SimulationConfig(): the defaults of the dataclass
SimulationConfig ==
    [ base_temp               |-> 2800,
      temp_amplitude          |-> 800,
      peak_hour               |-> 14,
      temp_noise              |-> 30,
      base_humidity           |-> 6500,
      humidity_amplitude      |-> 1500,
      humidity_peak_hour      |-> 5,
      base_pressure           |-> 101325,
      pressure_drift_range    |-> 2000,
      decay_rate              |-> 995,
      rain_moisture_spike     |-> 9500,
      evaporation_factor      |-> 2,
      rain_humidity_threshold |-> 8500,
      rain_pressure_threshold |-> 100500,
      rain_base_probability   |-> 100,
      rain_duration_min       |-> 10,
      rain_duration_max       |-> 50,
      ticks_per_virtual_hour  |-> 30 ]

\* A valid configuration passed to WeatherSimulator(config=...) whose
\* extremes sit on the alert thresholds: the diurnal sine is exactly 38.00
\* at hour 7 and bottoms at exactly 2.00 at hour 23, the pressure ceiling is
\* exactly 990.00 and the post-rain moisture ceiling exactly 30.00; one tick
\* per virtual hour and rain episodes of one or two ticks.
ThresholdConfig ==
    [ SimulationConfig EXCEPT
        !.base_temp              = 2600,
        !.temp_amplitude         = 2400,
        !.peak_hour              = 11,
        !.base_pressure          = 97000,
        !.rain_moisture_spike    = 3000,
        !.rain_duration_min      = 1,
        !.rain_duration_max      = 2,
        !.ticks_per_virtual_hour = 1 ]

\* SimulationConfig(ticks_per_virtual_hour=1), the configuration of
\* test_diurnal_temperature_cycle
DiurnalTestConfig == [ SimulationConfig EXCEPT !.ticks_per_virtual_hour = 1 ]

\* SimulationConfig(pressure_drift_range=0.2): a drift range the random walk
\* crosses in a few ticks
NarrowDriftConfig == [ SimulationConfig EXCEPT !.pressure_drift_range = 20 ]

\* The configurations an engine is constructed with
Configs == {SimulationConfig, ThresholdConfig}

\* SimulationConfig(rain_duration_min=50, rain_duration_max=10): the dataclass
\* takes any values
BadDurationConfig ==
    [ SimulationConfig EXCEPT !.rain_duration_min = 50, !.rain_duration_max = 10 ]

\* SimulationConfig(ticks_per_virtual_hour=0)
ZeroTicksConfig == [ SimulationConfig EXCEPT !.ticks_per_virtual_hour = 0 ]

\* Configurations the spec calls invalid
InvalidConfigs == {BadDurationConfig, ZeroTicksConfig}

\* WeatherState(): the defaults of the dataclass
WeatherState ==
    [ temperature          |-> 2800,
      humidity             |-> 6500,
      pressure             |-> 101325,
      soil_moisture        |-> 5000,
      rainfall             |-> 0,
      is_raining           |-> FALSE,
      rain_intensity       |-> 0,
      rain_ticks_remaining |-> 0,
      tick_count           |-> 0,
      virtual_hour         |-> 6 * HourUnits,
      wind_speed           |-> 500,
      wind_direction       |-> 18000 ]

-----------------------------------------------------------------------------
(* The random draws of one tick *)

\* random.random(), in 1/60000: its least and its greatest value
Uniform01 == {0, 59999}

\* (random.randint(rain_duration_min, rain_duration_max),
\*  random.uniform(0.3, 1.0) in hundredths) when rain starts
StartDraws(cfg) ==
    { [duration |-> cfg.rain_duration_min, intensity |-> 100],
      [duration |-> cfg.rain_duration_max, intensity |-> 30] }

\* The Gaussian draws of one tick, in standard deviations: the temperature
\* noise gauss(0, temp_noise), the humidity noise gauss(0, 2.0), the
\* pressure-trend step gauss(0, 0.5), the wind step gauss(0, 1), and the
\* direction in which a rounding tie falls.  The sample holds a low, a zero
\* and a high temperature noise and both signs of every other draw.
GaussDraws ==
    { [temp |-> -3, humidity |-> -3, trend |-> -1, wind |-> -3, tie |-> FALSE],
      [temp |->  0, humidity |->  3, trend |->  1, wind |->  3, tie |-> TRUE],
      [temp |->  3, humidity |-> -3, trend |->  1, wind |-> -3, tie |-> TRUE] }

\* the intensity step gauss(0, 0.1) while rain continues, in hundredths
\* (three standard deviations down or up)
ChangeDraws == {-30, 30}

\* rain_probability * 60000 of _check_rain_conditions
rain_probability(cfg, st) ==
    LET humidity_factor == Max(0, st.humidity - cfg.rain_humidity_threshold)
        pressure_factor == Max(0, cfg.rain_pressure_threshold - st.pressure)
    IN  6 * cfg.rain_base_probability + 4 * humidity_factor + 3 * pressure_factor

\* variant of check_rain_conditions: rain continues only while more than one
\* tick remains
check_rain_conditions_stops_early(cfg, st, d) ==
    IF st.is_raining
    THEN IF st.rain_ticks_remaining > 1
         THEN [ should_rain          |-> TRUE,
                rain_intensity       |-> Max(10, Min(100, st.rain_intensity + d.change)),
                rain_ticks_remaining |-> st.rain_ticks_remaining ]
         ELSE [ should_rain          |-> FALSE,
                rain_intensity       |-> 0,
                rain_ticks_remaining |-> st.rain_ticks_remaining ]
    ELSE IF d.u < rain_probability(cfg, st)
         THEN [ should_rain          |-> TRUE,
                rain_intensity       |-> d.intensity,
                rain_ticks_remaining |-> d.duration ]
         ELSE [ should_rain          |-> FALSE,
                rain_intensity       |-> 0,
                rain_ticks_remaining |-> st.rain_ticks_remaining ]

\* variant of check_rain_conditions: when the rain has run out, the start
\* conditions are evaluated on the same tick
check_rain_conditions_restarts(cfg, st, d) ==
    IF st.is_raining /\ st.rain_ticks_remaining > 0
    THEN [ should_rain          |-> TRUE,
           rain_intensity       |-> Max(10, Min(100, st.rain_intensity + d.change)),
           rain_ticks_remaining |-> st.rain_ticks_remaining ]
    ELSE IF d.u < rain_probability(cfg, st)
         THEN [ should_rain          |-> TRUE,
                rain_intensity       |-> d.intensity,
                rain_ticks_remaining |-> d.duration ]
         ELSE [ should_rain          |-> FALSE,
                rain_intensity       |-> 0,
                rain_ticks_remaining |-> st.rain_ticks_remaining ]

\* _check_rain_conditions: (should_rain, rain_intensity) and the value it
\* leaves in state.rain_ticks_remaining.  d.change is the gauss(0, 0.1) step,
\* d.u the random() draw, d.duration the randint draw, d.intensity the
\* uniform draw.
check_rain_conditions(cfg, st, d) ==
    IF st.is_raining
    THEN IF st.rain_ticks_remaining > 0
         THEN [ should_rain          |-> TRUE,
                rain_intensity       |-> Max(10, Min(100, st.rain_intensity + d.change)),
                rain_ticks_remaining |-> st.rain_ticks_remaining ]
         ELSE [ should_rain          |-> FALSE,
                rain_intensity       |-> 0,
                rain_ticks_remaining |-> st.rain_ticks_remaining ]
    ELSE IF d.u < rain_probability(cfg, st)
         THEN [ should_rain          |-> TRUE,
                rain_intensity       |-> d.intensity,
                rain_ticks_remaining |-> d.duration ]
         ELSE [ should_rain          |-> FALSE,
                rain_intensity       |-> 0,
                rain_ticks_remaining |-> st.rain_ticks_remaining ]

\* variant of calculate_diurnal_temperature: rain cools by 50 degrees per
\* unit of intensity
calculate_diurnal_temperature_cooling_50(cfg, st, noise, tieUp) ==
    LET sine_value   == Sin(Phase(st.virtual_hour, cfg.peak_hour))
        rain_cooling == IF st.is_raining THEN st.rain_intensity * 50 ELSE 0
    IN  RoundDiv((cfg.base_temp - rain_cooling + noise) * 10000
                     + cfg.temp_amplitude * sine_value, 10000, tieUp)

\* variant of calculate_diurnal_temperature: no diurnal sine term
calculate_diurnal_temperature_flat(cfg, st, noise, tieUp) ==
    LET rain_cooling == IF st.is_raining THEN st.rain_intensity * 5 ELSE 0
    IN  RoundDiv((cfg.base_temp - rain_cooling + noise) * 10000, 10000, tieUp)

\* _calculate_diurnal_temperature, in hundredths
calculate_diurnal_temperature(cfg, st, noise, tieUp) ==
    LET sine_value   == Sin(Phase(st.virtual_hour, cfg.peak_hour))
        rain_cooling == IF st.is_raining THEN st.rain_intensity * 5 ELSE 0
    IN  RoundDiv((cfg.base_temp - rain_cooling + noise) * 10000
                     + cfg.temp_amplitude * sine_value, 10000, tieUp)

\* _calculate_humidity, in hundredths
calculate_humidity(cfg, st, noise, tieUp) ==
    LET sine_value    == -Sin(Phase(st.virtual_hour, cfg.humidity_peak_hour))
        base_humidity == cfg.base_humidity * 10000 + cfg.humidity_amplitude * sine_value
        boosted       == IF st.is_raining
                         THEN Min(98 * Centi * 10000,
                                  base_humidity + st.rain_intensity * 20 * 10000)
                         ELSE base_humidity
    IN  RoundDiv(Max(20 * Centi * 10000,
                     Min(100 * Centi * 10000, boosted + noise * 10000)),
                 10000, tieUp)

\* variant of calculate_pressure: the trend is not clamped to [-1, 1]
calculate_pressure_free_trend(cfg, st, trend, step) ==
    LET new_trend    == trend + step
        moved        == st.pressure + new_trend
        min_pressure == cfg.base_pressure - cfg.pressure_drift_range
        max_pressure == cfg.base_pressure + cfg.pressure_drift_range
        new_pressure == IF moved < cfg.base_pressure THEN moved + 5
                        ELSE IF moved > cfg.base_pressure THEN moved - 5
                        ELSE moved
    IN  [ pressure |-> Max(min_pressure, Min(max_pressure, new_pressure)),
          trend    |-> new_trend ]

\* variant of calculate_pressure: the pressure is not clamped to the drift
\* range
calculate_pressure_unclamped(cfg, st, trend, step) ==
    LET new_trend    == Max(-10, Min(10, trend + step))
        moved        == st.pressure + new_trend
        new_pressure == IF moved < cfg.base_pressure THEN moved + 5
                        ELSE IF moved > cfg.base_pressure THEN moved - 5
                        ELSE moved
    IN  [ pressure |-> new_pressure, trend |-> new_trend ]

\* _calculate_pressure: the new pressure and the new self._pressure_trend
calculate_pressure(cfg, st, trend, step) ==
    LET new_trend    == Max(-10, Min(10, trend + step))
        moved        == st.pressure + new_trend
        min_pressure == cfg.base_pressure - cfg.pressure_drift_range
        max_pressure == cfg.base_pressure + cfg.pressure_drift_range
        new_pressure == IF moved < cfg.base_pressure THEN moved + 5
                        ELSE IF moved > cfg.base_pressure THEN moved - 5
                        ELSE moved
    IN  [ pressure |-> Max(min_pressure, Min(max_pressure, new_pressure)),
          trend    |-> new_trend ]

\* variant of calculate_soil_moisture: the extra evaporation is applied
\* below 30 degrees too, where it is negative
calculate_soil_moisture_signed_evap(cfg, st, tieUp) ==
    LET current_moisture == st.soil_moisture
        rained == Min(cfg.rain_moisture_spike,
                      current_moisture + st.rain_intensity * 5) * 1000
        extra_evap == (st.temperature - 30 * Centi) * cfg.evaporation_factor * 10
        dried == current_moisture * cfg.decay_rate - extra_evap
        new_moisture == IF st.is_raining THEN rained ELSE dried
    IN  RoundDiv(Max(0, Min(100 * Centi * 1000, new_moisture)), 1000, tieUp)

\* variant of calculate_soil_moisture: rain sets the moisture to
\* rain_moisture_spike ("Moisture level after rain")
calculate_soil_moisture_spike(cfg, st, tieUp) ==
    LET current_moisture == st.soil_moisture
        rained == cfg.rain_moisture_spike * 1000
        extra_evap == IF st.temperature > 30 * Centi
                      THEN (st.temperature - 30 * Centi) * cfg.evaporation_factor * 10
                      ELSE 0
        dried == current_moisture * cfg.decay_rate - extra_evap
        new_moisture == IF st.is_raining THEN rained ELSE dried
    IN  RoundDiv(Max(0, Min(100 * Centi * 1000, new_moisture)), 1000, tieUp)

\* variant of calculate_soil_moisture: the rain is added without the cap at
\* rain_moisture_spike
calculate_soil_moisture_uncapped(cfg, st, tieUp) ==
    LET current_moisture == st.soil_moisture
        rained == (current_moisture + st.rain_intensity * 5) * 1000
        extra_evap == IF st.temperature > 30 * Centi
                      THEN (st.temperature - 30 * Centi) * cfg.evaporation_factor * 10
                      ELSE 0
        dried == current_moisture * cfg.decay_rate - extra_evap
        new_moisture == IF st.is_raining THEN rained ELSE dried
    IN  RoundDiv(Max(0, Min(100 * Centi * 1000, new_moisture)), 1000, tieUp)

\* _calculate_soil_moisture, in hundredths
calculate_soil_moisture(cfg, st, tieUp) ==
    LET current_moisture == st.soil_moisture
        rained == Min(cfg.rain_moisture_spike,
                      current_moisture + st.rain_intensity * 5) * 1000
        extra_evap == IF st.temperature > 30 * Centi
                      THEN (st.temperature - 30 * Centi) * cfg.evaporation_factor * 10
                      ELSE 0
        dried == current_moisture * cfg.decay_rate - extra_evap
        new_moisture == IF st.is_raining THEN rained ELSE dried
    IN  RoundDiv(Max(0, Min(100 * Centi * 1000, new_moisture)), 1000, tieUp)

\* one AlertBase(type, severity, threshold_value, actual_value); the title
\* and the message are fixed texts built from the same value
AlertBase(type, severity, threshold_value, actual_value) ==
    [ type            |-> type,
      severity        |-> severity,
      threshold_value |-> threshold_value,
      actual_value    |-> actual_value ]

\* variant of dry_alert: severity high up to and including 20
dry_alert_high_at_20(st) ==
    IF st.soil_moisture < 30 * Centi
    THEN << AlertBase("CRITICAL_DRY",
                      IF st.soil_moisture <= 20 * Centi THEN "high" ELSE "medium",
                      30 * Centi, st.soil_moisture) >>
    ELSE << >>

\* _check_alerts, "Critical Dry Alert"
dry_alert(st) ==
    IF st.soil_moisture < 30 * Centi
    THEN << AlertBase("CRITICAL_DRY",
                      IF st.soil_moisture < 20 * Centi THEN "high" ELSE "medium",
                      30 * Centi, st.soil_moisture) >>
    ELSE << >>

\* variant of storm_alert: the threshold itself raises the alert
storm_alert_inclusive(st) ==
    IF st.pressure <= 990 * Centi
    THEN << AlertBase("STORM_WARNING", "high", 990 * Centi, st.pressure) >>
    ELSE << >>

\* _check_alerts, "Storm Warning"
storm_alert(st) ==
    IF st.pressure < 990 * Centi
    THEN << AlertBase("STORM_WARNING", "high", 990 * Centi, st.pressure) >>
    ELSE << >>

\* _check_alerts, "Heat Warning"
heat_alert(st) ==
    IF st.temperature > 38 * Centi
    THEN << AlertBase("HEAT_WARNING", "medium", 38 * Centi, st.temperature) >>
    ELSE << >>

\* _check_alerts, "Frost Warning"
frost_alert(st) ==
    IF st.temperature < 2 * Centi
    THEN << AlertBase("FROST_WARNING", "critical", 2 * Centi, st.temperature) >>
    ELSE << >>

\* _check_alerts: the list it builds, in the order of its appends
check_alerts(st) ==
    dry_alert(st) \o storm_alert(st) \o heat_alert(st) \o frost_alert(st)

\* variant of advance_time: rain_ticks_remaining is not counted down
advance_time_no_countdown(cfg, st) ==
    LET advanced == st.virtual_hour + HourUnits \div cfg.ticks_per_virtual_hour
    IN  [ st EXCEPT
            !.tick_count   = st.tick_count + 1,
            !.virtual_hour = IF advanced >= DayUnits THEN 0 ELSE advanced ]

\* variant of advance_time: virtual_hour is not wrapped at 24
advance_time_nowrap(cfg, st) ==
    [ st EXCEPT
        !.tick_count           = st.tick_count + 1,
        !.virtual_hour         = st.virtual_hour
                                   + HourUnits \div cfg.ticks_per_virtual_hour,
        !.rain_ticks_remaining = IF st.rain_ticks_remaining > 0
                                 THEN st.rain_ticks_remaining - 1
                                 ELSE st.rain_ticks_remaining ]

\* _advance_time; 1.0 / ticks_per_virtual_hour is a whole number of hour
\* units for the configurations of Configs
advance_time(cfg, st) ==
    LET advanced == st.virtual_hour + HourUnits \div cfg.ticks_per_virtual_hour
    IN  [ st EXCEPT
            !.tick_count           = st.tick_count + 1,
            !.virtual_hour         = IF advanced >= DayUnits THEN 0 ELSE advanced,
            !.rain_ticks_remaining = IF st.rain_ticks_remaining > 0
                                     THEN st.rain_ticks_remaining - 1
                                     ELSE st.rain_ticks_remaining ]

\* variant of update_wind: no clamp at 0
update_wind_unclamped(st, step) == Min(50 * Centi, st.wind_speed + step)

\* the wind random walk of update_state
update_wind(st, step) == Min(50 * Centi, Max(0, st.wind_speed + step))

\* variant of SensorReading: simulation_tick is the count before this tick
SensorReading_stale_tick(st, tieUp) ==
    [ temperature     |-> st.temperature,
      humidity        |-> st.humidity,
      pressure        |-> st.pressure,
      soil_moisture   |-> st.soil_moisture,
      rainfall        |-> RoundDiv(st.rainfall, 10, tieUp),
      wind_speed      |-> st.wind_speed,
      is_raining      |-> st.is_raining,
      simulation_tick |-> st.tick_count - 1 ]

\* the SensorReading update_state returns
SensorReading(st, tieUp) ==
    [ temperature     |-> st.temperature,
      humidity        |-> st.humidity,
      pressure        |-> st.pressure,
      soil_moisture   |-> st.soil_moisture,
      rainfall        |-> RoundDiv(st.rainfall, 10, tieUp),
      wind_speed      |-> st.wind_speed,
      is_raining      |-> st.is_raining,
      simulation_tick |-> st.tick_count ]

\* variant of update_state: rainfall is computed from the rain state before
\* the tick
update_state_stale_rainfall(cfg, st, trend, d) ==
    LET rain   == check_rain_conditions(cfg, st, d)
        s1     == [ st EXCEPT
                      !.rain_ticks_remaining = rain.rain_ticks_remaining,
                      !.is_raining           = rain.should_rain,
                      !.rain_intensity       = rain.rain_intensity,
                      !.rainfall             = IF st.is_raining
                                               THEN st.rain_intensity * 25
                                               ELSE 0 ]
        s2     == [ s1 EXCEPT !.temperature =
                      calculate_diurnal_temperature(cfg, s1, d.temp_noise, d.tie) ]
        s3     == [ s2 EXCEPT !.humidity =
                      calculate_humidity(cfg, s2, d.humidity_noise, d.tie) ]
        p      == calculate_pressure(cfg, s3, trend, d.trend_step)
        s4     == [ s3 EXCEPT !.pressure = p.pressure ]
        s5     == [ s4 EXCEPT !.soil_moisture = calculate_soil_moisture(cfg, s4, d.tie) ]
        s6     == [ s5 EXCEPT !.wind_speed = update_wind(s5, d.wind_step) ]
        found  == check_alerts(s6)
        s7     == advance_time(cfg, s6)
    IN  [ state   |-> s7,
          alerts  |-> found,
          trend   |-> p.trend,
          reading |-> SensorReading(s7, d.tie) ]

\* update_state: one tick from state st and trend, with the draws d.
\* Yields the new state, the new self._alerts, the new trend and the
\* returned reading.
update_state(cfg, st, trend, d) ==
    LET rain   == check_rain_conditions(cfg, st, d)
        s1     == [ st EXCEPT
                      !.rain_ticks_remaining = rain.rain_ticks_remaining,
                      !.is_raining           = rain.should_rain,
                      !.rain_intensity       = rain.rain_intensity,
                      !.rainfall             = IF rain.should_rain
                                               THEN rain.rain_intensity * 25
                                               ELSE 0 ]
        s2     == [ s1 EXCEPT !.temperature =
                      calculate_diurnal_temperature(cfg, s1, d.temp_noise, d.tie) ]
        s3     == [ s2 EXCEPT !.humidity =
                      calculate_humidity(cfg, s2, d.humidity_noise, d.tie) ]
        p      == calculate_pressure(cfg, s3, trend, d.trend_step)
        s4     == [ s3 EXCEPT !.pressure = p.pressure ]
        s5     == [ s4 EXCEPT !.soil_moisture = calculate_soil_moisture(cfg, s4, d.tie) ]
        s6     == [ s5 EXCEPT !.wind_speed = update_wind(s5, d.wind_step) ]
        found  == check_alerts(s6)
        s7     == advance_time(cfg, s6)
    IN  [ state   |-> s7,
          alerts  |-> found,
          trend   |-> p.trend,
          reading |-> SensorReading(s7, d.tie) ]

\* the Field constraints of the SensorReading model: constructing a reading
\* that breaks one raises a ValidationError
SensorReadingValid(r) ==
    /\ 0 <= r.humidity /\ r.humidity <= 100 * Centi
    /\ 0 <= r.soil_moisture /\ r.soil_moisture <= 100 * Centi
    /\ r.rainfall >= 0
    /\ r.wind_speed >= 0

\* what update_state has written when the division in _advance_time raises:
\* every field, the alerts, the trend and tick_count, but neither
\* virtual_hour nor rain_ticks_remaining
update_state_until_division(cfg, st, trend, d) ==
    LET rain   == check_rain_conditions(cfg, st, d)
        s1     == [ st EXCEPT
                      !.rain_ticks_remaining = rain.rain_ticks_remaining,
                      !.is_raining           = rain.should_rain,
                      !.rain_intensity       = rain.rain_intensity,
                      !.rainfall             = IF rain.should_rain
                                               THEN rain.rain_intensity * 25
                                               ELSE 0 ]
        s2     == [ s1 EXCEPT !.temperature =
                      calculate_diurnal_temperature(cfg, s1, d.temp_noise, d.tie) ]
        s3     == [ s2 EXCEPT !.humidity =
                      calculate_humidity(cfg, s2, d.humidity_noise, d.tie) ]
        p      == calculate_pressure(cfg, s3, trend, d.trend_step)
        s4     == [ s3 EXCEPT !.pressure = p.pressure ]
        s5     == [ s4 EXCEPT !.soil_moisture = calculate_soil_moisture(cfg, s4, d.tie) ]
        s6     == [ s5 EXCEPT !.wind_speed = update_wind(s5, d.wind_step) ]
    IN  [ state  |-> [ s6 EXCEPT !.tick_count = s6.tick_count + 1 ],
          alerts |-> check_alerts(s6),
          trend  |-> p.trend ]

\* the first statements of update_state (lines 359-362): the rain state is
\* written, nothing else yet
rain_state_update(cfg, st, d) ==
    LET rain == check_rain_conditions(cfg, st, d)
    IN  [ st EXCEPT
            !.rain_ticks_remaining = rain.rain_ticks_remaining,
            !.is_raining           = rain.should_rain,
            !.rain_intensity       = rain.rain_intensity,
            !.rainfall             = IF rain.should_rain
                                     THEN rain.rain_intensity * 25
                                     ELSE 0 ]

\* the rest of update_state (lines 365-391), from the state s1 it finds
\* after the rain state was written
update_state_from_rain(cfg, s1, trend, d) ==
    LET s2     == [ s1 EXCEPT !.temperature =
                      calculate_diurnal_temperature(cfg, s1, d.temp_noise, d.tie) ]
        s3     == [ s2 EXCEPT !.humidity =
                      calculate_humidity(cfg, s2, d.humidity_noise, d.tie) ]
        p      == calculate_pressure(cfg, s3, trend, d.trend_step)
        s4     == [ s3 EXCEPT !.pressure = p.pressure ]
        s5     == [ s4 EXCEPT !.soil_moisture = calculate_soil_moisture(cfg, s4, d.tie) ]
        s6     == [ s5 EXCEPT !.wind_speed = update_wind(s5, d.wind_step) ]
        found  == check_alerts(s6)
        s7     == advance_time(cfg, s6)
    IN  [ state   |-> s7,
          alerts  |-> found,
          trend   |-> p.trend,
          reading |-> SensorReading(s7, d.tie) ]

\* the exception the construction of the reading raises at the end of
\* update_state, or "none": SensorReading(...) raises ValidationError when a
\* Field constraint fails
reading_raises(r) == IF SensorReadingValid(r) THEN "none" ELSE "ValidationError"

\* update_state with its exceptions: what it leaves in the engine, what it
\* returns, and the exception it raises or "none".  random.randint(a, b)
\* raises ValueError when a > b, before anything is written (found is
\* self._alerts before the call); 1.0 / ticks_per_virtual_hour raises
\* ZeroDivisionError in _advance_time; the construction of the reading
\* raises after everything is written.
update_state_outcome(cfg, st, found, trend, d) ==
    IF /\ ~st.is_raining
       /\ d.u < rain_probability(cfg, st)
       /\ cfg.rain_duration_min > cfg.rain_duration_max
    THEN [ raised |-> "ValueError",
           engine |-> [ state |-> st, alerts |-> found, trend |-> trend ] ]
    ELSE IF cfg.ticks_per_virtual_hour = 0
    THEN [ raised |-> "ZeroDivisionError",
           engine |-> update_state_until_division(cfg, st, trend, d) ]
    ELSE [ raised |-> "",
           engine |-> update_state(cfg, st, trend, d) ]

\* the exception of an outcome of update_state, or "none"
raised_by(o) == IF o.raised = "" THEN reading_raises(o.engine.reading) ELSE o.raised

\* what the caller of update_state gets: the reading, or the exception
returned_by(o) ==
    IF raised_by(o) = "none" THEN o.engine.reading ELSE [raised |-> raised_by(o)]

\* variant of trigger_rain: the humidity boost is not capped at 98
trigger_rain_humidity_uncapped(st, intensity, duration) ==
    [ st EXCEPT
        !.is_raining           = TRUE,
        !.rain_intensity       = Max(10, Min(100, intensity)),
        !.rain_ticks_remaining = duration,
        !.humidity             = st.humidity + 20 * Centi,
        !.temperature          = st.temperature - 3 * Centi ]

\* variant of trigger_rain: the intensity is stored as given
trigger_rain_unclamped(st, intensity, duration) ==
    [ st EXCEPT
        !.is_raining           = TRUE,
        !.rain_intensity       = intensity,
        !.rain_ticks_remaining = duration,
        !.humidity             = Min(98 * Centi, st.humidity + 20 * Centi),
        !.temperature          = st.temperature - 3 * Centi ]

\* trigger_rain(intensity, duration)
trigger_rain(st, intensity, duration) ==
    [ st EXCEPT
        !.is_raining           = TRUE,
        !.rain_intensity       = Max(10, Min(100, intensity)),
        !.rain_ticks_remaining = duration,
        !.humidity             = Min(98 * Centi, st.humidity + 20 * Centi),
        !.temperature          = st.temperature - 3 * Centi ]

\* variant of trigger_drought: rain_ticks_remaining is left as it is
trigger_drought_keeps_countdown(st) ==
    [ st EXCEPT
        !.soil_moisture        = 10 * Centi,
        !.humidity             = 30 * Centi,
        !.is_raining           = FALSE,
        !.rain_intensity       = 0 ]

\* trigger_drought()
trigger_drought(st) ==
    [ st EXCEPT
        !.soil_moisture        = 10 * Centi,
        !.humidity             = 30 * Centi,
        !.is_raining           = FALSE,
        !.rain_intensity       = 0,
        !.rain_ticks_remaining = 0 ]

-----------------------------------------------------------------------------
(* The crop recommendation engine (backend/app/services/crop_engine.py).     *)
(* Temperatures are whole degrees, humidity whole percent, rainfall whole    *)
(* millimetres; feasibility scores are counted in tenths (round(score, 1)).  *)

\* CROP_DATABASE: the fields calculate_feasibility reads, in the order of the
\* dict
CROP_DATABASE ==
    <<
      [ name |-> "Rice", min_temp |-> 20, max_temp |-> 35,
        min_rainfall |-> 1000, max_rainfall |-> 2500,
        min_humidity |-> 60, max_humidity |-> 95,
        suitable_soils |-> {"Alluvial", "Clay", "Black (Regur)"} ],
      [ name |-> "Wheat", min_temp |-> 10, max_temp |-> 25,
        min_rainfall |-> 400, max_rainfall |-> 1000,
        min_humidity |-> 40, max_humidity |-> 70,
        suitable_soils |-> {"Alluvial", "Loamy", "Clay"} ],
      [ name |-> "Cotton", min_temp |-> 21, max_temp |-> 35,
        min_rainfall |-> 500, max_rainfall |-> 1200,
        min_humidity |-> 50, max_humidity |-> 75,
        suitable_soils |-> {"Black (Regur)", "Alluvial"} ],
      [ name |-> "Sugarcane", min_temp |-> 20, max_temp |-> 40,
        min_rainfall |-> 1000, max_rainfall |-> 2000,
        min_humidity |-> 60, max_humidity |-> 90,
        suitable_soils |-> {"Alluvial", "Loamy", "Black (Regur)"} ],
      [ name |-> "Groundnut", min_temp |-> 20, max_temp |-> 35,
        min_rainfall |-> 500, max_rainfall |-> 1200,
        min_humidity |-> 40, max_humidity |-> 70,
        suitable_soils |-> {"Red", "Sandy Loam", "Loamy"} ],
      [ name |-> "Soybean", min_temp |-> 20, max_temp |-> 30,
        min_rainfall |-> 500, max_rainfall |-> 1000,
        min_humidity |-> 50, max_humidity |-> 80,
        suitable_soils |-> {"Black (Regur)", "Loamy"} ],
      [ name |-> "Maize", min_temp |-> 18, max_temp |-> 32,
        min_rainfall |-> 500, max_rainfall |-> 1200,
        min_humidity |-> 50, max_humidity |-> 80,
        suitable_soils |-> {"Alluvial", "Loamy", "Red"} ],
      [ name |-> "Tomato", min_temp |-> 15, max_temp |-> 30,
        min_rainfall |-> 400, max_rainfall |-> 800,
        min_humidity |-> 50, max_humidity |-> 75,
        suitable_soils |-> {"Loamy", "Alluvial", "Red"} ],
      [ name |-> "Onion", min_temp |-> 15, max_temp |-> 30,
        min_rainfall |-> 350, max_rainfall |-> 800,
        min_humidity |-> 40, max_humidity |-> 70,
        suitable_soils |-> {"Loamy", "Alluvial"} ],
      [ name |-> "Potato", min_temp |-> 10, max_temp |-> 25,
        min_rainfall |-> 400, max_rainfall |-> 800,
        min_humidity |-> 50, max_humidity |-> 80,
        suitable_soils |-> {"Loamy", "Sandy Loam", "Alluvial"} ],
      [ name |-> "Arecanut", min_temp |-> 18, max_temp |-> 35,
        min_rainfall |-> 2000, max_rainfall |-> 4000,
        min_humidity |-> 70, max_humidity |-> 95,
        suitable_soils |-> {"Laterite", "Alluvial", "Red"} ],
      [ name |-> "Coconut", min_temp |-> 20, max_temp |-> 35,
        min_rainfall |-> 1500, max_rainfall |-> 3000,
        min_humidity |-> 60, max_humidity |-> 90,
        suitable_soils |-> {"Laterite", "Alluvial", "Sandy Loam"} ],
      [ name |-> "Coffee", min_temp |-> 15, max_temp |-> 28,
        min_rainfall |-> 1500, max_rainfall |-> 2500,
        min_humidity |-> 70, max_humidity |-> 90,
        suitable_soils |-> {"Laterite", "Red", "Loamy"} ],
      [ name |-> "Tea", min_temp |-> 13, max_temp |-> 28,
        min_rainfall |-> 1500, max_rainfall |-> 3000,
        min_humidity |-> 70, max_humidity |-> 95,
        suitable_soils |-> {"Red", "Loamy", "Laterite"} ],
      [ name |-> "Banana", min_temp |-> 20, max_temp |-> 35,
        min_rainfall |-> 1000, max_rainfall |-> 2500,
        min_humidity |-> 60, max_humidity |-> 90,
        suitable_soils |-> {"Alluvial", "Loamy", "Red"} ],
      [ name |-> "Mango", min_temp |-> 20, max_temp |-> 40,
        min_rainfall |-> 800, max_rainfall |-> 2500,
        min_humidity |-> 40, max_humidity |-> 80,
        suitable_soils |-> {"Alluvial", "Loamy", "Red"} ],
      [ name |-> "Chilli", min_temp |-> 18, max_temp |-> 35,
        min_rainfall |-> 600, max_rainfall |-> 1200,
        min_humidity |-> 50, max_humidity |-> 70,
        suitable_soils |-> {"Loamy", "Alluvial", "Red"} ],
      [ name |-> "Turmeric", min_temp |-> 20, max_temp |-> 35,
        min_rainfall |-> 1500, max_rainfall |-> 2500,
        min_humidity |-> 70, max_humidity |-> 90,
        suitable_soils |-> {"Alluvial", "Loamy", "Red"} ],
      [ name |-> "Ginger", min_temp |-> 20, max_temp |-> 32,
        min_rainfall |-> 1500, max_rainfall |-> 3000,
        min_humidity |-> 70, max_humidity |-> 90,
        suitable_soils |-> {"Loamy", "Alluvial", "Red"} ],
      [ name |-> "Black Pepper", min_temp |-> 20, max_temp |-> 35,
        min_rainfall |-> 2000, max_rainfall |-> 4000,
        min_humidity |-> 75, max_humidity |-> 95,
        suitable_soils |-> {"Laterite", "Red", "Loamy"} ]
    >>

\* similar_mappings of calculate_feasibility
similar_mappings ==
    [ base \in {"Loamy", "Clay", "Sandy", "Mountain"} |->
        CASE base = "Loamy"    -> {"Alluvial", "Sandy Loam"}
          [] base = "Clay"     -> {"Black (Regur)"}
          [] base = "Sandy"    -> {"Sandy Loam", "Desert"}
          [] base = "Mountain" -> {"Laterite", "Red"} ]

\* calculate_feasibility, in tenths.  The temperature, humidity and soil
\* parts are whole tenths; the rainfall part is a fraction num/den of a
\* tenth, rounded by round(score, 1).
calculate_feasibility(crop, avg_temp, avg_humidity, annual_rainfall, soil_type, tieUp) ==
    LET temp_score ==
            IF crop.min_temp <= avg_temp /\ avg_temp <= crop.max_temp THEN 300
            ELSE IF avg_temp < crop.min_temp
                 THEN Max(0, 300 - (crop.min_temp - avg_temp) * 30)
                 ELSE Max(0, 300 - (avg_temp - crop.max_temp) * 30)
        hum_score ==
            IF crop.min_humidity <= avg_humidity /\ avg_humidity <= crop.max_humidity
            THEN 200
            ELSE IF avg_humidity < crop.min_humidity
                 THEN Max(0, 200 - (crop.min_humidity - avg_humidity) * 5)
                 ELSE Max(0, 200 - (avg_humidity - crop.max_humidity) * 5)
        rain_num ==
            IF crop.min_rainfall <= annual_rainfall /\ annual_rainfall <= crop.max_rainfall
            THEN 250
            ELSE IF annual_rainfall < crop.min_rainfall
                 THEN 250 * annual_rainfall
                 ELSE Max(0, 2500 - (annual_rainfall - crop.max_rainfall))
        rain_den ==
            IF crop.min_rainfall <= annual_rainfall /\ annual_rainfall <= crop.max_rainfall
            THEN 1
            ELSE IF annual_rainfall < crop.min_rainfall
                 THEN crop.min_rainfall
                 ELSE 10
        soil_score ==
            IF soil_type \in crop.suitable_soils THEN 250
            ELSE IF /\ soil_type \in DOMAIN similar_mappings
                    /\ similar_mappings[soil_type] \cap crop.suitable_soils # {}
                 THEN 180
                 ELSE 100
    IN  RoundDiv((temp_score + hum_score + soil_score) * rain_den + rain_num,
                 rain_den, tieUp)

\* the Field constraint of CropFeasibility.feasibility_score (ge=0, le=100)
CropFeasibilityValid(c) == 0 <= c.feasibility_score /\ c.feasibility_score <= 1000

\* recommendations[:top_n]
Slice(q, top_n) ==
    SubSeq(q, 1, IF top_n >= 0 THEN Min(top_n, Len(q)) ELSE Max(0, Len(q) + top_n))

\* the list get_recommendations builds before it sorts: one CropFeasibility
\* per crop, in the order of the database (crop_name and feasibility_score;
\* the other fields do not depend on the score)
scored_crops(avg_temp, avg_humidity, annual_rainfall, soil_type, tieUp) ==
    [ i \in 1..Len(CROP_DATABASE) |->
        [ crop_name         |-> CROP_DATABASE[i].name,
          feasibility_score |-> calculate_feasibility(CROP_DATABASE[i], avg_temp,
                                    avg_humidity, annual_rainfall, soil_type, tieUp) ] ]

\* list.sort(key=feasibility_score, reverse=True): a stable sort, so an entry
\* comes after the entries with a higher score and after the earlier entries
\* with the same score
sort_by_score(q) ==
    LET before(i) == { j \in 1..Len(q) :
                          \/ q[j].feasibility_score > q[i].feasibility_score
                          \/ /\ q[j].feasibility_score = q[i].feasibility_score
                             /\ j < i }
    IN  [ k \in 1..Len(q) |->
            q[CHOOSE i \in 1..Len(q) : Cardinality(before(i)) = k - 1] ]

\* variant of get_recommendations: the list is not sorted
get_recommendations_unsorted(avg_temp, avg_humidity, annual_rainfall, soil_type, top_n, tieUp) ==
    Slice(scored_crops(avg_temp, avg_humidity, annual_rainfall, soil_type, tieUp),
          top_n)

\* get_recommendations
get_recommendations(avg_temp, avg_humidity, annual_rainfall, soil_type, top_n, tieUp) ==
    Slice(sort_by_score(scored_crops(avg_temp, avg_humidity, annual_rainfall,
                                     soil_type, tieUp)),
          top_n)

\* the arguments of get_recommendations: a temperature below, inside and
\* above the ranges of the crops, likewise humidity and rainfall, a soil some
\* crops list, one that is similar to such a soil, one that is neither, and
\* top_n below, at and above the size of the database
CropInputs ==
    [ avg_temp        : {0, 12, 28, 45},
      avg_humidity    : {0, 70, 100},
      annual_rainfall : {0, 333, 1500, 5000},
      soil_type       : {"Alluvial", "Sandy", "Desert"},
      top_n           : {-1, 0, 5, 20, 25},
      tie             : BOOLEAN ]

-----------------------------------------------------------------------------
(* Inputs *)

\* the draws _check_rain_conditions reads in state st: the intensity step
\* while rain continues, nothing when it ends, and random(), then randint
\* and uniform if rain starts, when it is dry
RainDraws(cfg, st) ==
    IF st.is_raining
    THEN IF st.rain_ticks_remaining > 0
         THEN { [u |-> 0, duration |-> 0, intensity |-> 0, change |-> c] :
                    c \in ChangeDraws }
         ELSE { [u |-> 0, duration |-> 0, intensity |-> 0, change |-> 0] }
    ELSE { [ u         |-> u,
             duration  |-> IF u < rain_probability(cfg, st) THEN s.duration ELSE 0,
             intensity |-> IF u < rain_probability(cfg, st) THEN s.intensity ELSE 0,
             change    |-> 0 ] :
               u \in Uniform01, s \in StartDraws(cfg) }

\* all the draws of one tick
TickDraws(cfg, st) ==
    { [ u              |-> r.u,
        duration       |-> r.duration,
        intensity      |-> r.intensity,
        change         |-> r.change,
        temp_noise     |-> g.temp * cfg.temp_noise,
        humidity_noise |-> g.humidity * 200,
        trend_step     |-> g.trend * 5,
        wind_step      |-> g.wind * 100,
        tie            |-> g.tie ] :
          r \in RainDraws(cfg, st), g \in GaussDraws }

\* the draws of one tick of a caller that watches the temperature: every rain
\* draw, each with a temperature noise of three standard deviations (down
\* when rain starts or grows stronger, up when it stays dry or rain grows
\* weaker: the draws that keep the temperatures of a day closest together),
\* and the draws the temperature does not depend on at their mean
DiurnalDraws(cfg, st) ==
    { [ u              |-> r.u,
        duration       |-> r.duration,
        intensity      |-> r.intensity,
        change         |-> r.change,
        temp_noise     |-> IF r.change > 0 \/ r.intensity > 50
                           THEN -3 * cfg.temp_noise
                           ELSE 3 * cfg.temp_noise,
        humidity_noise |-> 0,
        trend_step     |-> 0,
        wind_step      |-> 0,
        tie            |-> FALSE ] :
          r \in RainDraws(cfg, st) }

\* (intensity in hundredths, duration) arguments of trigger_rain and of
\* POST /rain: any float and any int are accepted.  The sample holds the
\* falsy arguments, an intensity above the range and a negative duration.
RainArgs ==
    { [intensity |->   0, duration |->  0],
      [intensity |-> 150, duration |-> -1] }
\* the arguments with a duration that is not negative: the falsy ones and a
\* rain of one tick
NonNegativeRainArgs ==
    { a \in RainArgs : a.duration >= 0 } \cup { [intensity |-> 50, duration |-> 1] }
\* hours arguments of POST /time-jump
JumpHours == {-1, 0, 17, 24, 25, 30}

\* hours arguments of POST /time-jump that take a fresh engine (hour 6) to
\* the hours of the highest (14) and of the lowest (2) diurnal temperature
ExtremeJumpHours == {8, 20}

\* (intensity, duration) of the trigger_rain call of a caller that then ticks:
\* the call of test_trigger_rain_increases_moisture and a short episode
RainTestArgs ==
    { [intensity |->  80, duration |-> 30],
      [intensity |-> 150, duration |->  2] }

\* the websockets that connect to /ws/sensors/{farm_id}
Sockets == {"ws1", "ws2"}
\* the farm_id values they connect with
Farms == {"farm1", "farm2"}

-----------------------------------------------------------------------------
(* The state machine *)

\* WeatherSimulator.__init__
Init ==
    /\ config \in Configs
    /\ state = WeatherState
    /\ alerts = << >>
    /\ pressure_trend = 0
    /\ returned = << >>
    /\ last_op = "init"
    /\ last_args = << >>
    /\ rain_calls = 0
    /\ observed = << >>
    /\ active_connections = [f \in {} |-> {}]
    /\ all_connections = {}
    /\ handler = [w \in Sockets |-> [pc |-> "new", farm_id |-> ""]]
    /\ delivered = [w \in Sockets |-> << >>]
    /\ interval = 0
    /\ interval_ticks = 0
    /\ running = "none"
    /\ call = [phase |-> "idle"]

\* simulator.update_state(), as the streaming loop and the tests call it
Tick ==
    /\ state.tick_count < MaxTicks
    /\ \E d \in TickDraws(config, state) :
         \E o \in { update_state_outcome(config, state, alerts, pressure_trend, d) } :
           /\ state' = o.engine.state
           /\ alerts' = o.engine.alerts
           /\ pressure_trend' = o.engine.trend
           /\ returned' = << returned_by(o) >>
           /\ last_op' = (IF raised_by(o) = "none" THEN "update_state"
                                               ELSE "update_state_raised")
           /\ rain_calls' = (IF o.raised = "ValueError" THEN rain_calls ELSE 0)
    /\ last_args' = << >>
    /\ UNCHANGED <<config, observed, stream_vars>>

\* simulator.trigger_rain(intensity, duration)
TriggerRain(intensity, duration) ==
    /\ rain_calls < MaxRainCalls
    /\ state' = trigger_rain(state, intensity, duration)
    /\ returned' = << >>
    /\ last_op' = "trigger_rain"
    /\ last_args' = <<intensity, duration>>
    /\ rain_calls' = rain_calls + 1
    /\ UNCHANGED <<config, alerts, pressure_trend, observed, stream_vars>>

\* POST /rain: "request.intensity or 0.8", "request.duration or 30"
\* (a missing or null field is falsy like 0)
PostRain(intensity, duration) ==
    /\ rain_calls < MaxRainCalls
    /\ state' = trigger_rain(state,
                             IF intensity = 0 THEN 80 ELSE intensity,
                             IF duration = 0 THEN 30 ELSE duration)
    /\ returned' = << >>
    /\ last_op' = "post_rain"
    /\ last_args' = <<intensity, duration>>
    /\ rain_calls' = rain_calls + 1
    /\ UNCHANGED <<config, alerts, pressure_trend, observed, stream_vars>>

\* variant of TriggerDrought: the alerts are evaluated again on the new state
TriggerDrought_rechecks_alerts ==
    /\ state' = trigger_drought(state)
    /\ alerts' = check_alerts(state')
    /\ returned' = << >>
    /\ last_op' = "trigger_drought"
    /\ last_args' = << >>
    /\ UNCHANGED <<config, pressure_trend, rain_calls, observed, stream_vars>>

\* simulator.trigger_drought(), POST /drought
TriggerDrought ==
    /\ state' = trigger_drought(state)
    /\ returned' = << >>
    /\ last_op' = "trigger_drought"
    /\ last_args' = << >>
    /\ UNCHANGED <<config, alerts, pressure_trend, rain_calls, observed, stream_vars>>

\* variant of Reset: self._alerts is left as it is
Reset_keeps_alerts ==
    /\ state' = WeatherState
    /\ pressure_trend' = 0
    /\ returned' = << >>
    /\ last_op' = "reset"
    /\ last_args' = << >>
    /\ rain_calls' = 0
    /\ UNCHANGED <<config, alerts, observed, stream_vars>>

\* variant of Reset: the rainfall of the last tick is left as it is
Reset_keeps_rainfall ==
    /\ state' = [ WeatherState EXCEPT !.rainfall = state.rainfall ]
    /\ alerts' = << >>
    /\ pressure_trend' = 0
    /\ returned' = << >>
    /\ last_op' = "reset"
    /\ last_args' = << >>
    /\ rain_calls' = 0
    /\ UNCHANGED <<config, observed, stream_vars>>

\* variant of Reset: self._pressure_trend is left as it is
Reset_keeps_trend ==
    /\ state' = WeatherState
    /\ alerts' = << >>
    /\ returned' = << >>
    /\ last_op' = "reset"
    /\ last_args' = << >>
    /\ rain_calls' = 0
    /\ UNCHANGED <<config, pressure_trend, observed, stream_vars>>

\* simulator.reset(), POST /reset
Reset ==
    /\ state' = WeatherState
    /\ alerts' = << >>
    /\ pressure_trend' = 0
    /\ returned' = << >>
    /\ last_op' = "reset"
    /\ last_args' = << >>
    /\ rain_calls' = 0
    /\ UNCHANGED <<config, observed, stream_vars>>

\* variant of TimeJump: the jumped virtual_hour is not taken modulo 24
TimeJump_no_modulo(hours) ==
    /\ ~(hours < 1 \/ hours > 24)
    /\ state.tick_count < MaxTicks
    /\ LET jumped == [ state EXCEPT !.virtual_hour =
                         state.virtual_hour + hours * HourUnits ]
       IN  \E d \in TickDraws(config, jumped) :
             \E o \in { update_state_outcome(config, jumped, alerts, pressure_trend, d) } :
               /\ state' = o.engine.state
               /\ alerts' = o.engine.alerts
               /\ pressure_trend' = o.engine.trend
               /\ returned' = << returned_by(o) >>
               /\ last_op' = (IF raised_by(o) = "none" THEN "time_jump"
                                                   ELSE "time_jump_raised")
               /\ rain_calls' = (IF o.raised = "ValueError" THEN rain_calls ELSE 0)
    /\ last_args' = <<hours>>
    /\ UNCHANGED <<config, observed, stream_vars>>

\* variant of TimeJump: only the upper end of the range is checked
TimeJump_no_lower_bound(hours) ==
    /\ ~(hours > 24)
    /\ state.tick_count < MaxTicks
    /\ LET jumped == [ state EXCEPT !.virtual_hour =
                         (state.virtual_hour + hours * HourUnits) % DayUnits ]
       IN  \E d \in TickDraws(config, jumped) :
             \E o \in { update_state_outcome(config, jumped, alerts, pressure_trend, d) } :
               /\ state' = o.engine.state
               /\ alerts' = o.engine.alerts
               /\ pressure_trend' = o.engine.trend
               /\ returned' = << returned_by(o) >>
               /\ last_op' = (IF raised_by(o) = "none" THEN "time_jump"
                                                   ELSE "time_jump_raised")
               /\ rain_calls' = (IF o.raised = "ValueError" THEN rain_calls ELSE 0)
    /\ last_args' = <<hours>>
    /\ UNCHANGED <<config, observed, stream_vars>>

\* POST /time-jump?hours=... with hours in [1, 24]
TimeJump(hours) ==
    /\ ~(hours < 1 \/ hours > 24)
    /\ state.tick_count < MaxTicks
    /\ LET jumped == [ state EXCEPT !.virtual_hour =
                         (state.virtual_hour + hours * HourUnits) % DayUnits ]
       IN  \E d \in TickDraws(config, jumped) :
             \E o \in { update_state_outcome(config, jumped, alerts, pressure_trend, d) } :
               /\ state' = o.engine.state
               /\ alerts' = o.engine.alerts
               /\ pressure_trend' = o.engine.trend
               /\ returned' = << returned_by(o) >>
               /\ last_op' = (IF raised_by(o) = "none" THEN "time_jump"
                                                   ELSE "time_jump_raised")
               /\ rain_calls' = (IF o.raised = "ValueError" THEN rain_calls ELSE 0)
    /\ last_args' = <<hours>>
    /\ UNCHANGED <<config, observed, stream_vars>>

\* POST /time-jump?hours=... with hours outside [1, 24]: HTTPException(400)
\* is raised before the simulator is fetched
TimeJumpRejected(hours) ==
    /\ hours < 1 \/ hours > 24
    /\ returned' = << >>
    /\ last_op' = "time_jump_rejected"
    /\ last_args' = <<hours>>
    /\ UNCHANGED <<config, state, alerts, pressure_trend, rain_calls, observed,
                   stream_vars>>

Next ==
    \/ Tick
    \/ \E a \in RainArgs : TriggerRain(a.intensity, a.duration)
    \/ \E a \in RainArgs : PostRain(a.intensity, a.duration)
    \/ TriggerDrought
    \/ Reset
    \/ \E h \in JumpHours : TimeJump(h)

\* The engine and the requests that reach it.  A request the router turns
\* away leaves every variable of the engine alone: a stuttering step here.
Spec == Init /\ [][Next]_vars

\* The same, with the rejected requests recorded in last_op
NextApi ==
    \/ Next
    \/ \E h \in JumpHours : TimeJumpRejected(h)

SpecApi == Init /\ [][NextApi]_vars

NextHours ==
    \/ Tick
    \/ \E a \in RainArgs : TriggerRain(a.intensity, a.duration)
    \/ \E a \in RainArgs : PostRain(a.intensity, a.duration)
    \/ TriggerDrought
    \/ Reset
    \/ \E h \in ExtremeJumpHours : TimeJump(h)

\* The engine and the requests that reach it, with the time-jumps that take
\* it to the hours of the extreme temperatures
SpecHours == Init /\ [][NextHours]_vars

\* A caller on a fresh engine, as test_trigger_rain_increases_moisture: it
\* calls trigger_rain, reads soil_moisture and keeps it
RainTestCall(intensity, duration) ==
    /\ last_op = "init"
    /\ state' = trigger_rain(state, intensity, duration)
    /\ observed' = [ intensity        |-> intensity,
                     duration         |-> duration,
                     initial_moisture |-> state'.soil_moisture,
                     ticks            |-> 0 ]
    /\ returned' = << >>
    /\ last_op' = "trigger_rain"
    /\ last_args' = <<intensity, duration>>
    /\ rain_calls' = rain_calls + 1
    /\ UNCHANGED <<config, alerts, pressure_trend, stream_vars>>

\* ... and then calls update_state, up to MaxRainTestTicks times
RainTestTick ==
    /\ observed # << >>
    /\ observed.ticks < MaxRainTestTicks
    /\ \E d \in TickDraws(config, state) :
         \E o \in { update_state_outcome(config, state, alerts, pressure_trend, d) } :
           /\ state' = o.engine.state
           /\ alerts' = o.engine.alerts
           /\ pressure_trend' = o.engine.trend
           /\ returned' = << returned_by(o) >>
           /\ last_op' = (IF raised_by(o) = "none" THEN "update_state"
                                               ELSE "update_state_raised")
           /\ rain_calls' = (IF o.raised = "ValueError" THEN rain_calls ELSE 0)
    /\ observed' = [ observed EXCEPT !.ticks = observed.ticks + 1 ]
    /\ last_args' = << >>
    /\ UNCHANGED <<config, stream_vars>>

NextRainTest ==
    \/ \E a \in RainTestArgs : RainTestCall(a.intensity, a.duration)
    \/ RainTestTick

\* trigger_rain on a fresh engine followed by ticks only
SpecRainTest == Init /\ [][NextRainTest]_vars

\* ConnectionManager.connect: the websocket joins the set of its farm_id
\* (created when missing) and the global set
connect(connections, everyone, websocket, farm_id) ==
    [ active_connections |->
          [ f \in DOMAIN connections \cup {farm_id} |->
              IF f = farm_id
              THEN (IF f \in DOMAIN connections THEN connections[f] ELSE {})
                       \cup {websocket}
              ELSE connections[f] ],
      all_connections |-> everyone \cup {websocket} ]

\* variant of disconnect: the emptied set of a farm is kept
disconnect_keeps_empty_farm(connections, everyone, websocket, farm_id) ==
    [ active_connections |->
          [ f \in DOMAIN connections |->
              IF f = farm_id THEN connections[f] \ {websocket}
                             ELSE connections[f] ],
      all_connections |-> everyone \ {websocket} ]

\* ConnectionManager.disconnect: the websocket leaves the set of its farm_id,
\* an emptied set is deleted, and it leaves the global set
disconnect(connections, everyone, websocket, farm_id) ==
    LET emptied == /\ farm_id \in DOMAIN connections
                   /\ connections[farm_id] \ {websocket} = {}
    IN  [ active_connections |->
              [ f \in (IF emptied THEN DOMAIN connections \ {farm_id}
                                  ELSE DOMAIN connections) |->
                  IF f = farm_id THEN connections[f] \ {websocket}
                                 ELSE connections[f] ],
          all_connections |-> everyone \ {websocket} ]

\* WebSocketPayload(farm_id, sensors, alerts, simulation_status="running")
WebSocketPayload(farm_id, sensors, found) ==
    [ farm_id |-> farm_id, sensors |-> sensors, alerts |-> found ]

\* websocket_sensor_stream up to its loop: manager.connect and the
\* connection message
StreamConnect(websocket, farm_id) ==
    /\ handler[websocket].pc = "new"
    /\ LET m == connect(active_connections, all_connections, websocket, farm_id)
       IN  /\ active_connections' = m.active_connections
           /\ all_connections' = m.all_connections
    /\ handler' = [ handler EXCEPT ![websocket] =
                       [pc |-> "streaming", farm_id |-> farm_id] ]
    /\ UNCHANGED <<config, state, alerts, pressure_trend, returned, last_op,
                   last_args, rain_calls, observed, delivered, interval,
                   interval_ticks, running, call>>

\* one turn of the streaming loop of a websocket: simulator.update_state(),
\* simulator.get_alerts(), the payload sent on this websocket, then the sleep
StreamTick(websocket) ==
    /\ handler[websocket].pc = "streaming"
    /\ state.tick_count < MaxTicks
    /\ \E d \in TickDraws(config, state) :
         \E o \in { update_state_outcome(config, state, alerts, pressure_trend, d) } :
           /\ state' = o.engine.state
           /\ alerts' = o.engine.alerts
           /\ pressure_trend' = o.engine.trend
           /\ returned' = << returned_by(o) >>
           /\ last_op' = (IF raised_by(o) = "none" THEN "update_state"
                                                  ELSE "update_state_raised")
           /\ rain_calls' = (IF o.raised = "ValueError" THEN rain_calls ELSE 0)
           /\ IF raised_by(o) = "none"
              THEN /\ delivered' = [ delivered EXCEPT ![websocket] =
                        Append(delivered[websocket],
                               WebSocketPayload(handler[websocket].farm_id,
                                                o.engine.reading, o.engine.alerts)) ]
                   /\ handler' = [ handler EXCEPT ![websocket].pc = "sleeping" ]
                   /\ UNCHANGED <<active_connections, all_connections>>
              ELSE \* except Exception, then the finally clause
                   \E m \in { disconnect(active_connections, all_connections,
                                         websocket, handler[websocket].farm_id) } :
                     /\ active_connections' = m.active_connections
                     /\ all_connections' = m.all_connections
                     /\ handler' = [ handler EXCEPT ![websocket].pc = "closed" ]
                     /\ UNCHANGED delivered
    /\ interval_ticks' = interval_ticks + 1
    /\ last_args' = << >>
    /\ UNCHANGED <<config, observed, interval, running, call>>

\* the client of a websocket goes away: the pending await raises
\* WebSocketDisconnect and the finally clause calls manager.disconnect
StreamClose(websocket) ==
    /\ handler[websocket].pc \in {"streaming", "sleeping"}
    /\ LET m == disconnect(active_connections, all_connections, websocket,
                           handler[websocket].farm_id)
       IN  /\ active_connections' = m.active_connections
           /\ all_connections' = m.all_connections
    /\ handler' = [ handler EXCEPT ![websocket].pc = "closed" ]
    /\ UNCHANGED <<config, state, alerts, pressure_trend, returned, last_op,
                   last_args, rain_calls, observed, delivered, interval,
                   interval_ticks, running, call>>

\* one tick interval (the 2 seconds of asyncio.sleep(2.0)) passes: every
\* handler whose update_state was due has made it, and every sleeping handler
\* wakes up for its next turn
StreamInterval ==
    /\ \A w \in Sockets : handler[w].pc # "streaming"
    /\ handler' = [ w \in Sockets |->
                      IF handler[w].pc = "sleeping"
                      THEN [ handler[w] EXCEPT !.pc = "streaming" ]
                      ELSE handler[w] ]
    /\ interval' = 1 - interval
    /\ interval_ticks' = 0
    /\ UNCHANGED <<config, state, alerts, pressure_trend, returned, last_op,
                   last_args, rain_calls, observed, active_connections,
                   all_connections, delivered, running, call>>

NextStream ==
    \/ \E w \in Sockets, f \in Farms : StreamConnect(w, f)
    \/ \E w \in Sockets : StreamTick(w)
    \/ \E w \in Sockets : StreamClose(w)
    \/ StreamInterval

\* The websocket handlers and the engine they share (get_simulator)
SpecStream == Init /\ [][NextStream]_vars

\* WeatherSimulator(config=SimulationConfig(ticks_per_virtual_hour=1)) and
\* the empty list of temperatures of the caller
InitDiurnal ==
    /\ config = DiurnalTestConfig
    /\ state = WeatherState
    /\ alerts = << >>
    /\ pressure_trend = 0
    /\ returned = << >>
    /\ last_op = "init"
    /\ last_args = << >>
    /\ rain_calls = 0
    /\ observed = [ ticks |-> 0, min_temp |-> 0, max_temp |-> 0 ]
    /\ active_connections = [f \in {} |-> {}]
    /\ all_connections = {}
    /\ handler = [w \in Sockets |-> [pc |-> "new", farm_id |-> ""]]
    /\ delivered = [w \in Sockets |-> << >>]
    /\ interval = 0
    /\ interval_ticks = 0
    /\ running = "none"
    /\ call = [phase |-> "idle"]

\* one turn of the loop of test_diurnal_temperature_cycle: update_state and
\* the temperature of the reading appended to temps, of which the caller
\* needs the least and the greatest
DiurnalTick ==
    /\ observed.ticks < MaxDiurnalTicks
    /\ \E d \in DiurnalDraws(config, state) :
         \E o \in { update_state_outcome(config, state, alerts, pressure_trend, d) } :
           /\ state' = o.engine.state
           /\ alerts' = o.engine.alerts
           /\ pressure_trend' = o.engine.trend
           /\ returned' = << returned_by(o) >>
           /\ last_op' = (IF raised_by(o) = "none" THEN "update_state"
                                                  ELSE "update_state_raised")
           /\ observed' =
                [ ticks    |-> observed.ticks + 1,
                  min_temp |-> IF observed.ticks = 0 THEN o.engine.state.temperature
                               ELSE Min(observed.min_temp, o.engine.state.temperature),
                  max_temp |-> IF observed.ticks = 0 THEN o.engine.state.temperature
                               ELSE Max(observed.max_temp, o.engine.state.temperature) ]
    /\ rain_calls' = 0
    /\ last_args' = << >>
    /\ UNCHANGED <<config, stream_vars>>

\* A fresh engine with one tick per virtual hour, ticked through a day
SpecDiurnal == InitDiurnal /\ [][DiurnalTick]_vars

\* what a caller that only ticks knows of the rain episodes so far: the
\* number of its ticks, the duration drawn when the latest episode started,
\* the ticks that left is_raining true in that episode, whether it has ended,
\* and the number of episodes that have started
NoEpisode ==
    [ ticks |-> 0, drawn |-> 0, raining_ticks |-> 0, ended |-> FALSE,
      episodes |-> 0 ]

\* one update_state call of that caller, on an engine nothing else touches
EpisodeTick ==
    LET seen == IF observed = << >> THEN NoEpisode ELSE observed
    IN  /\ seen.ticks < MaxEpisodeTicks
        /\ \E d \in DiurnalDraws(config, state) :
             \E o \in { update_state_outcome(config, state, alerts, pressure_trend, d) } :
               /\ state' = o.engine.state
               /\ alerts' = o.engine.alerts
               /\ pressure_trend' = o.engine.trend
               /\ returned' = << returned_by(o) >>
               /\ last_op' = (IF raised_by(o) = "none" THEN "update_state"
                                                      ELSE "update_state_raised")
               /\ observed' =
                    IF ~state.is_raining /\ o.engine.state.is_raining
                    THEN [ ticks         |-> seen.ticks + 1,
                           drawn         |-> d.duration,
                           raining_ticks |-> 1,
                           ended         |-> FALSE,
                           episodes      |-> seen.episodes + 1 ]
                    ELSE [ seen EXCEPT
                             !.ticks         = seen.ticks + 1,
                             !.raining_ticks =
                                 IF o.engine.state.is_raining
                                 THEN seen.raining_ticks + 1
                                 ELSE seen.raining_ticks,
                             !.ended         =
                                 IF state.is_raining /\ ~o.engine.state.is_raining
                                 THEN TRUE ELSE seen.ended ]
        /\ rain_calls' = 0
        /\ last_args' = << >>
        /\ UNCHANGED <<config, stream_vars>>

\* A fresh engine that is only ticked
SpecEpisode == Init /\ [][EpisodeTick]_vars

NextNonNegative ==
    \/ Tick
    \/ \E a \in NonNegativeRainArgs : TriggerRain(a.intensity, a.duration)
    \/ \E a \in NonNegativeRainArgs : PostRain(a.intensity, a.duration)
    \/ TriggerDrought
    \/ Reset
    \/ \E h \in JumpHours : TimeJump(h)

\* The engine and the requests that reach it, no rain being forced with a
\* negative duration
SpecNonNegative == Init /\ [][NextNonNegative]_vars

\* the pressure-trend steps gauss(0, 0.5) of a tick, in tenths: one and three
\* standard deviations, down and up
PressureSteps == {-15, -5, 5, 15}

\* the draws of one tick of a caller that watches the pressure: every trend
\* step, no rain started, and the draws the pressure does not depend on at
\* their mean
PressureDraws ==
    { [ u              |-> 59999,
        duration       |-> 0,
        intensity      |-> 0,
        change         |-> 0,
        temp_noise     |-> 0,
        humidity_noise |-> 0,
        trend_step     |-> step,
        wind_step      |-> 0,
        tie            |-> FALSE ] : step \in PressureSteps }

\* one update_state call of that caller, which keeps the pressure it saw
\* before the call
PressureTick ==
    /\ state.tick_count < MaxPressureTicks
    /\ \E d \in PressureDraws :
         \E o \in { update_state_outcome(config, state, alerts, pressure_trend, d) } :
           /\ state' = o.engine.state
           /\ alerts' = o.engine.alerts
           /\ pressure_trend' = o.engine.trend
           /\ returned' = << returned_by(o) >>
           /\ last_op' = (IF raised_by(o) = "none" THEN "update_state"
                                                  ELSE "update_state_raised")
    /\ observed' = [ pressure_before |-> state.pressure ]
    /\ rain_calls' = 0
    /\ last_args' = << >>
    /\ UNCHANGED <<config, stream_vars>>

InitPressure ==
    /\ config \in {SimulationConfig, NarrowDriftConfig, ThresholdConfig}
    /\ state = WeatherState
    /\ alerts = << >>
    /\ pressure_trend = 0
    /\ returned = << >>
    /\ last_op = "init"
    /\ last_args = << >>
    /\ rain_calls = 0
    /\ observed = << >>
    /\ active_connections = [f \in {} |-> {}]
    /\ all_connections = {}
    /\ handler = [w \in Sockets |-> [pc |-> "new", farm_id |-> ""]]
    /\ delivered = [w \in Sockets |-> << >>]
    /\ interval = 0
    /\ interval_ticks = 0
    /\ running = "none"
    /\ call = [phase |-> "idle"]

NextPressure ==
    \/ PressureTick
    \/ TriggerDrought
    \/ Reset

\* An engine of any drift range, ticked, dried out and reset
SpecPressure == InitPressure /\ [][NextPressure]_vars

\* the draws of one tick of a caller that waits for a storm: a trend step of
\* three standard deviations, down or up
StormDraws == { d \in PressureDraws : d.trend_step \in {-15, 15} }

\* one update_state call of that caller, which keeps the pressure it saw
\* before the call
StormTick ==
    /\ state.tick_count < MaxStormTicks
    /\ \E d \in StormDraws :
         \E o \in { update_state_outcome(config, state, alerts, pressure_trend, d) } :
           /\ state' = o.engine.state
           /\ alerts' = o.engine.alerts
           /\ pressure_trend' = o.engine.trend
           /\ returned' = << returned_by(o) >>
           /\ last_op' = (IF raised_by(o) = "none" THEN "update_state"
                                                  ELSE "update_state_raised")
    /\ observed' = [ pressure_before |-> state.pressure ]
    /\ rain_calls' = 0
    /\ last_args' = << >>
    /\ UNCHANGED <<config, stream_vars>>

\* WeatherSimulator(): the default configuration
InitStorm == Init /\ config = SimulationConfig

NextStorm ==
    \/ StormTick
    \/ Reset

\* The engine of get_simulator ticked for a long time, and reset
SpecStorm == InitStorm /\ [][NextStorm]_vars

\* the coroutines of the event loop: the streaming loop of each websocket and
\* the handler of a control request
Coroutines == Sockets \cup {"request"}

\* the hours a coroutine jumps before its update_state call: none in the
\* streaming loop, the accepted hours of POST /time-jump in a request
CallHours(c) ==
    IF c = "request" THEN { h \in JumpHours : ~(h < 1 \/ h > 24) } ELSE {0}

\* variant of LoopTickBegin: update_state awaits between the rain-state
\* update and the rest, handing the event loop to the other coroutines
LoopTickBegin_yields(c, hours) ==
    /\ running = "none"
    /\ call.phase = "idle"
    /\ state.tick_count < MaxTicks
    /\ LET jumped == [ state EXCEPT !.virtual_hour =
                         (state.virtual_hour + hours * HourUnits) % DayUnits ]
       IN  \E d \in TickDraws(config, jumped) :
             /\ state' = rain_state_update(config, jumped, d)
             /\ call' = [ phase |-> "rain_updated", by |-> c, d |-> d,
                          before |-> jumped ]
    /\ running' = "none"
    /\ returned' = << >>
    /\ last_op' = "update_state_begun"
    /\ last_args' = (IF c = "request" THEN <<hours>> ELSE << >>)
    /\ UNCHANGED <<config, alerts, pressure_trend, rain_calls, observed,
                   active_connections, all_connections, handler, delivered,
                   interval, interval_ticks>>

\* the event loop resumes coroutine c, which (after the virtual_hour write of
\* time-jump, in a request) enters update_state and writes the rain state.
\* No await follows: the coroutine keeps the event loop.
LoopTickBegin(c, hours) ==
    /\ running = "none"
    /\ call.phase = "idle"
    /\ state.tick_count < MaxTicks
    /\ LET jumped == [ state EXCEPT !.virtual_hour =
                         (state.virtual_hour + hours * HourUnits) % DayUnits ]
       IN  \E d \in TickDraws(config, jumped) :
             /\ state' = rain_state_update(config, jumped, d)
             /\ call' = [ phase |-> "rain_updated", by |-> c, d |-> d,
                          before |-> jumped ]
    /\ running' = c
    /\ returned' = << >>
    /\ last_op' = "update_state_begun"
    /\ last_args' = (IF c = "request" THEN <<hours>> ELSE << >>)
    /\ UNCHANGED <<config, alerts, pressure_trend, rain_calls, observed,
                   active_connections, all_connections, handler, delivered,
                   interval, interval_ticks>>

\* coroutine c goes on with the rest of update_state, up to its next await
\* (websocket.send_json) or to the end of the request
LoopTickEnd(c) ==
    /\ call.phase = "rain_updated"
    /\ call.by = c
    /\ running \in {c, "none"}
    /\ \E r \in { update_state_from_rain(config, state, pressure_trend, call.d) } :
         /\ state' = r.state
         /\ alerts' = r.alerts
         /\ pressure_trend' = r.trend
         /\ returned' = << r.reading >>
    /\ call' = [phase |-> "idle"]
    /\ running' = "none"
    /\ last_op' = (IF c = "request" THEN "time_jump" ELSE "update_state")
    /\ rain_calls' = 0
    /\ UNCHANGED <<config, last_args, observed, active_connections,
                   all_connections, handler, delivered, interval, interval_ticks>>

\* GET /state: a snapshot of the state and the alerts
GetState ==
    /\ returned' = << [ state |-> state, alerts |-> alerts ] >>
    /\ last_op' = "get_state"
    /\ last_args' = << >>
    /\ UNCHANGED <<config, state, alerts, pressure_trend, rain_calls, observed,
                   stream_vars>>

\* the event loop runs the handler of a control request or of a state read,
\* which has no await: it runs from start to end
LoopRequest ==
    /\ running = "none"
    /\ \/ \E a \in RainArgs : TriggerRain(a.intensity, a.duration)
       \/ \E a \in RainArgs : PostRain(a.intensity, a.duration)
       \/ TriggerDrought
       \/ Reset
       \/ GetState

NextLoop ==
    \/ \E c \in Coroutines : \E h \in CallHours(c) : LoopTickBegin(c, h)
    \/ \E c \in Coroutines : LoopTickEnd(c)
    \/ LoopRequest

\* The engine under the event loop of the server: update_state in two steps,
\* with the streaming loops and the control requests as coroutines
SpecLoop == Init /\ [][NextLoop]_vars

\* the payloads the subscribers have received so far
PayloadCount == Len(delivered["ws1"]) + Len(delivered["ws2"])

\* the draws of one tick of a streaming loop whose payloads are watched:
\* every rain draw, with the first row of the Gaussian draws
PayloadDraws(cfg, st) == { d \in TickDraws(cfg, st) : d.wind_step < 0 /\ ~d.tie }

\* variant of StreamUpdateState: an await between update_state and get_alerts
\* hands the event loop to the other coroutines
StreamUpdateState_yields(websocket) ==
    /\ running = "none"
    /\ call.phase = "idle"
    /\ handler[websocket].pc = "streaming"
    /\ state.tick_count < MaxTicks
    /\ PayloadCount < MaxPayloads
    /\ \E d \in PayloadDraws(config, state) :
         \E o \in { update_state_outcome(config, state, alerts, pressure_trend, d) } :
           /\ state' = o.engine.state
           /\ alerts' = o.engine.alerts
           /\ pressure_trend' = o.engine.trend
           /\ returned' = << returned_by(o) >>
           /\ last_op' = (IF raised_by(o) = "none" THEN "update_state"
                                                  ELSE "update_state_raised")
           /\ rain_calls' = (IF o.raised = "ValueError" THEN rain_calls ELSE 0)
           /\ IF raised_by(o) = "none"
              THEN /\ call' = [ phase |-> "updated", by |-> websocket,
                                sensor_reading |-> o.engine.reading ]
                   /\ handler' = [ handler EXCEPT ![websocket].pc = "updated" ]
                   /\ running' = "none"
                   /\ UNCHANGED <<active_connections, all_connections>>
              ELSE \E m \in { disconnect(active_connections, all_connections,
                                         websocket, handler[websocket].farm_id) } :
                     /\ active_connections' = m.active_connections
                     /\ all_connections' = m.all_connections
                     /\ handler' = [ handler EXCEPT ![websocket].pc = "closed" ]
                     /\ UNCHANGED <<call, running>>
    /\ interval_ticks' = interval_ticks + 1
    /\ last_args' = << >>
    /\ UNCHANGED <<config, observed, delivered, interval>>

\* the event loop resumes the streaming loop of a websocket, which calls
\* sensor_reading = simulator.update_state().  No await follows: the
\* coroutine keeps the event loop (an exception of update_state goes to
\* except Exception and the finally clause).
StreamUpdateState(websocket) ==
    /\ running = "none"
    /\ call.phase = "idle"
    /\ handler[websocket].pc = "streaming"
    /\ state.tick_count < MaxTicks
    /\ PayloadCount < MaxPayloads
    /\ \E d \in PayloadDraws(config, state) :
         \E o \in { update_state_outcome(config, state, alerts, pressure_trend, d) } :
           /\ state' = o.engine.state
           /\ alerts' = o.engine.alerts
           /\ pressure_trend' = o.engine.trend
           /\ returned' = << returned_by(o) >>
           /\ last_op' = (IF raised_by(o) = "none" THEN "update_state"
                                                  ELSE "update_state_raised")
           /\ rain_calls' = (IF o.raised = "ValueError" THEN rain_calls ELSE 0)
           /\ IF raised_by(o) = "none"
              THEN /\ call' = [ phase |-> "updated", by |-> websocket,
                                sensor_reading |-> o.engine.reading ]
                   /\ handler' = [ handler EXCEPT ![websocket].pc = "updated" ]
                   /\ running' = websocket
                   /\ UNCHANGED <<active_connections, all_connections>>
              ELSE \E m \in { disconnect(active_connections, all_connections,
                                         websocket, handler[websocket].farm_id) } :
                     /\ active_connections' = m.active_connections
                     /\ all_connections' = m.all_connections
                     /\ handler' = [ handler EXCEPT ![websocket].pc = "closed" ]
                     /\ UNCHANGED <<call, running>>
    /\ interval_ticks' = interval_ticks + 1
    /\ last_args' = << >>
    /\ UNCHANGED <<config, observed, delivered, interval>>

\* the streaming loop goes on: alerts = simulator.get_alerts(), the payload
\* of sensor_reading and alerts, await websocket.send_json, then the sleep
StreamGetAlerts(websocket) ==
    /\ call.phase = "updated"
    /\ call.by = websocket
    /\ running \in {websocket, "none"}
    /\ delivered' = [ delivered EXCEPT ![websocket] =
          Append(delivered[websocket],
                 WebSocketPayload(handler[websocket].farm_id,
                                  call.sensor_reading, alerts)) ]
    /\ handler' = [ handler EXCEPT ![websocket].pc = "sleeping" ]
    /\ call' = [phase |-> "idle"]
    /\ running' = "none"
    /\ UNCHANGED <<config, state, alerts, pressure_trend, returned, last_op,
                   last_args, rain_calls, observed, active_connections,
                   all_connections, interval, interval_ticks>>

\* the event loop runs a step of a websocket handler that starts or ends at
\* an await: the connection (the subscribers watch the same farm), the end
\* of the connection, the end of a sleep
LoopStream ==
    /\ running = "none"
    /\ \/ \E w \in Sockets : StreamConnect(w, "farm1")
       \/ \E w \in Sockets : StreamClose(w)
       \/ StreamInterval

\* the event loop runs the handler of a control request, which has no await
PayloadRequest ==
    /\ running = "none"
    /\ \/ \E a \in RainArgs : PostRain(a.intensity, a.duration)
       \/ TriggerDrought
       \/ Reset

NextPayload ==
    \/ \E w \in Sockets : StreamUpdateState(w)
    \/ \E w \in Sockets : StreamGetAlerts(w)
    \/ LoopStream
    \/ PayloadRequest

\* The websocket handlers under the event loop of the server, with the read
\* of the alerts as a step of its own, and the control requests
SpecPayload == Init /\ [][NextPayload]_vars

\* ConnectionManager.get_connection_count(farm_id): the size of the set of
\* the farm, 0 when the farm has none
get_connection_count_of(connections, farm_id) ==
    IF farm_id \in DOMAIN connections THEN Cardinality(connections[farm_id]) ELSE 0

\* ConnectionManager.get_connection_count(): the size of the global set
get_connection_count(everyone) == Cardinality(everyone)

\* ConnectionManager.get_active_farms(): the keys of active_connections
get_active_farms(connections) == DOMAIN connections

\* variant of broadcast_cleanup: the failed connections are dropped from the
\* local collection only, as broadcast_to_all does
broadcast_cleanup_skipped(connections, everyone, disconnected, farm_id) ==
    [ active_connections |-> connections, all_connections |-> everyone ]

\* the second loop of broadcast_to_farm: self.disconnect(connection, farm_id)
\* for every connection whose send failed.  The lock of the manager is never
\* held across an await, so no disconnect of the loop waits.
RECURSIVE broadcast_cleanup(_, _, _, _)
broadcast_cleanup(connections, everyone, disconnected, farm_id) ==
    IF disconnected = {}
    THEN [ active_connections |-> connections, all_connections |-> everyone ]
    ELSE LET connection == CHOOSE c \in disconnected : TRUE
             m == disconnect(connections, everyone, connection, farm_id)
         IN  broadcast_cleanup(m.active_connections, m.all_connections,
                               disconnected \ {connection}, farm_id)

\* the message of a broadcast
BroadcastMessage == [ type |-> "broadcast" ]

\* the draws of one tick of a streaming loop while the broadcasts are
\* watched: no rain started and every Gaussian draw at its mean
BroadcastDraws == { d \in PressureDraws : d.trend_step = 5 }

\* the set object the loop of broadcast_to_farm iterates: the set of the
\* farm as it is now, or the emptied set that disconnect took out of
\* active_connections
iterated_set(c, connections) ==
    IF c.attached /\ c.farm_id \in DOMAIN connections
    THEN connections[c.farm_id] ELSE {}

\* the broadcast after a step that changed active_connections: the iterated
\* set stays the set of the farm unless the step deleted it
broadcast_after(c, connections) ==
    IF c.phase = "sending"
    THEN [ c EXCEPT !.attached = c.attached /\ c.farm_id \in DOMAIN connections ]
    ELSE c

\* the client of a websocket goes away while its handler is suspended: the
\* handler and the manager learn of it at their next send
ClientCloses(websocket) ==
    /\ handler[websocket].pc \in {"streaming", "sleeping"}
    /\ handler' = [ handler EXCEPT ![websocket].pc = "lost" ]
    /\ UNCHANGED <<config, state, alerts, pressure_trend, returned, last_op,
                   last_args, rain_calls, observed, active_connections,
                   all_connections, delivered, interval, interval_ticks,
                   running, call>>

\* one turn of the streaming loop of a websocket whose client is there:
\* update_state, get_alerts, the payload sent, then the sleep
HandlerTurn(websocket) ==
    /\ handler[websocket].pc = "streaming"
    /\ PayloadCount < MaxPayloads
    /\ \E d \in BroadcastDraws :
         \E o \in { update_state_outcome(config, state, alerts, pressure_trend, d) } :
           /\ state' = o.engine.state
           /\ alerts' = o.engine.alerts
           /\ pressure_trend' = o.engine.trend
           /\ returned' = << returned_by(o) >>
           /\ last_op' = "update_state"
           /\ delivered' = [ delivered EXCEPT ![websocket] =
                 Append(delivered[websocket],
                        WebSocketPayload(handler[websocket].farm_id,
                                         o.engine.reading, o.engine.alerts)) ]
    /\ handler' = [ handler EXCEPT ![websocket].pc = "sleeping" ]
    /\ interval_ticks' = interval_ticks + 1
    /\ rain_calls' = 0
    /\ last_args' = << >>
    /\ UNCHANGED <<config, observed, active_connections, all_connections,
                   interval, running, call>>

\* the last turn of the streaming loop of a websocket whose client is gone:
\* update_state, get_alerts, send_json raises, and the finally clause calls
\* manager.disconnect
HandlerEnds(websocket) ==
    /\ handler[websocket].pc = "lost"
    /\ \E d \in BroadcastDraws :
         \E o \in { update_state_outcome(config, state, alerts, pressure_trend, d) } :
           /\ state' = o.engine.state
           /\ alerts' = o.engine.alerts
           /\ pressure_trend' = o.engine.trend
           /\ returned' = << returned_by(o) >>
           /\ last_op' = "update_state"
    /\ \E m \in { disconnect(active_connections, all_connections, websocket,
                              handler[websocket].farm_id) } :
         /\ active_connections' = m.active_connections
         /\ all_connections' = m.all_connections
         /\ call' = broadcast_after(call, m.active_connections)
    /\ handler' = [ handler EXCEPT ![websocket].pc = "closed" ]
    /\ rain_calls' = 0
    /\ last_args' = << >>
    /\ UNCHANGED <<config, observed, delivered, interval, interval_ticks, running>>

\* broadcast_to_farm(message, farm_id) up to its first await: nothing for a
\* farm without connections, else the iterator over the set of the farm and
\* the send on the first connection it yields
BroadcastBegin(farm_id) ==
    /\ call.phase \in {"idle", "returned", "raised"}
    /\ PayloadCount < MaxPayloads
    /\ IF farm_id \notin DOMAIN active_connections
       THEN call' = [ phase |-> "returned", farm_id |-> farm_id, used |-> 0,
                      attached |-> FALSE, start |-> {}, visited |-> {},
                      sent |-> {}, disconnected |-> {}, current |-> "" ]
       ELSE \E connection \in active_connections[farm_id] :
              call' = [ phase |-> "sending", farm_id |-> farm_id,
                        used |-> Cardinality(active_connections[farm_id]),
                        attached |-> TRUE,
                        start |-> active_connections[farm_id],
                        visited |-> {connection}, sent |-> {},
                        disconnected |-> {}, current |-> connection ]
    /\ UNCHANGED <<config, state, alerts, pressure_trend, returned, last_op,
                   last_args, rain_calls, observed, active_connections,
                   all_connections, handler, delivered, interval,
                   interval_ticks, running>>

\* the awaited send of broadcast_to_farm ends (an exception puts the
\* connection into disconnected) and the loop asks its iterator for the next
\* connection: RuntimeError when the size of the set has changed, else a
\* connection not yet yielded (one that joined during the loop may be passed
\* over), else the end of the loop and the cleanup
BroadcastSent ==
    /\ call.phase = "sending"
    /\ LET ok     == handler[call.current].pc \in {"streaming", "sleeping"}
           failed == IF ok THEN call.disconnected
                     ELSE call.disconnected \cup {call.current}
           sent   == IF ok THEN call.sent \cup {call.current} ELSE call.sent
           set    == iterated_set(call, active_connections)
           rest   == set \ call.visited
       IN  /\ delivered' = [ delivered EXCEPT ![call.current] =
                 IF ok THEN Append(delivered[call.current], BroadcastMessage)
                 ELSE delivered[call.current] ]
           /\ IF Cardinality(set) # call.used
              THEN /\ call' = [ call EXCEPT !.phase = "raised", !.sent = sent,
                                            !.disconnected = failed ]
                   /\ UNCHANGED <<active_connections, all_connections>>
              ELSE \/ \E connection \in rest :
                        /\ call' = [ call EXCEPT
                                       !.visited = call.visited \cup {connection},
                                       !.sent = sent,
                                       !.disconnected = failed,
                                       !.current = connection ]
                        /\ UNCHANGED <<active_connections, all_connections>>
                   \/ /\ rest \cap call.start = {}
                      /\ \E m \in { broadcast_cleanup(active_connections,
                                         all_connections, failed, call.farm_id) } :
                           /\ active_connections' = m.active_connections
                           /\ all_connections' = m.all_connections
                      /\ call' = [ call EXCEPT !.phase = "returned", !.sent = sent,
                                               !.disconnected = failed ]
    /\ UNCHANGED <<config, state, alerts, pressure_trend, returned, last_op,
                   last_args, rain_calls, observed, handler, interval,
                   interval_ticks, running>>

NextBroadcast ==
    \/ \E w \in Sockets, f \in Farms : StreamConnect(w, f)
    \/ \E w \in Sockets : HandlerTurn(w)
    \/ \E w \in Sockets : ClientCloses(w)
    \/ \E w \in Sockets : HandlerEnds(w)
    \/ StreamInterval
    \/ \E f \in Farms : BroadcastBegin(f)
    \/ BroadcastSent

\* The connection manager with the websocket handlers and a caller of
\* broadcast_to_farm as coroutines of the event loop
SpecBroadcast == Init /\ [][NextBroadcast]_vars

\* engine.get_recommendations(avg_temp, avg_humidity, annual_rainfall,
\* soil_type, top_n=top_n); a CropFeasibility that breaks its Field constraint
\* raises ValidationError.  The crop engine keeps nothing between calls: one
\* call is made.
GetRecommendations(a) ==
    /\ last_op = "init"
    /\ \E r \in { get_recommendations(a.avg_temp, a.avg_humidity, a.annual_rainfall,
                                       a.soil_type, a.top_n, a.tie) } :
         IF \A i \in 1..Len(scored_crops(a.avg_temp, a.avg_humidity,
                                          a.annual_rainfall, a.soil_type, a.tie)) :
                CropFeasibilityValid(scored_crops(a.avg_temp, a.avg_humidity,
                                        a.annual_rainfall, a.soil_type, a.tie)[i])
         THEN /\ returned' = << r >>
              /\ last_op' = "get_recommendations"
         ELSE /\ returned' = << [raised |-> "ValidationError"] >>
              /\ last_op' = "get_recommendations_raised"
    /\ last_args' = << a.avg_temp, a.avg_humidity, a.annual_rainfall, a.soil_type,
                       a.top_n >>
    /\ UNCHANGED <<config, state, alerts, pressure_trend, rain_calls, observed,
                   stream_vars>>

NextCrops == \E a \in CropInputs : GetRecommendations(a)

\* The crop engine called with the sample of arguments
SpecCrops == Init /\ [][NextCrops]_vars

\* WeatherSimulator(config) with any configuration: __init__ stores it
InitConfig ==
    /\ config \in Configs \cup InvalidConfigs
    /\ state = WeatherState
    /\ alerts = << >>
    /\ pressure_trend = 0
    /\ returned = << >>
    /\ last_op = "init"
    /\ last_args = << >>
    /\ rain_calls = 0
    /\ observed = << >>
    /\ active_connections = [f \in {} |-> {}]
    /\ all_connections = {}
    /\ handler = [w \in Sockets |-> [pc |-> "new", farm_id |-> ""]]
    /\ delivered = [w \in Sockets |-> << >>]
    /\ interval = 0
    /\ interval_ticks = 0
    /\ running = "none"
    /\ call = [phase |-> "idle"]

NextConfig ==
    \/ Tick
    \/ \E a \in RainArgs : TriggerRain(a.intensity, a.duration)
    \/ \E a \in RainArgs : PostRain(a.intensity, a.duration)
    \/ TriggerDrought
    \/ Reset

\* The engine constructed with any configuration, ticked and overridden
\* (no time-jump requests are made)
SpecConfig == InitConfig /\ [][NextConfig]_vars

-----------------------------------------------------------------------------
(* Properties *)

\* the current state was produced by update_state
PostTick == last_op \in {"update_state", "time_jump"}

\* the number of alerts of type t in the list a
CountAlerts(a, t) == Cardinality({ i \in 1..Len(a) : a[i].type = t })

\* the alert list a holds each of the four kinds exactly when its rule holds
\* of state st, once, and nothing else
AlertsMatch(a, st) ==
    /\ CountAlerts(a, "CRITICAL_DRY")  = (IF st.soil_moisture < 3000 THEN 1 ELSE 0)
    /\ CountAlerts(a, "STORM_WARNING") = (IF st.pressure < 99000 THEN 1 ELSE 0)
    /\ CountAlerts(a, "HEAT_WARNING")  = (IF st.temperature > 3800 THEN 1 ELSE 0)
    /\ CountAlerts(a, "FROST_WARNING") = (IF st.temperature < 200 THEN 1 ELSE 0)
    /\ \A i \in 1..Len(a) :
         a[i].type \in {"CRITICAL_DRY", "STORM_WARNING", "HEAT_WARNING", "FROST_WARNING"}

\* C1: in every reachable state 0 <= humidity <= 100, 0 <= soil_moisture <= 100
\* and 0 <= wind_speed <= 50.
C1_RangesHold ==
    /\ 0 <= state.humidity /\ state.humidity <= 10000
    /\ 0 <= state.soil_moisture /\ state.soil_moisture <= 10000
    /\ 0 <= state.wind_speed /\ state.wind_speed <= 5000

\* C1 witness: two ticks have walked the wind from 5.0 down to the clamp at 0
\* and an override has then rewritten humidity and soil moisture
C1_Witness ==
    /\ state.tick_count = 2
    /\ state.wind_speed = 0
    /\ last_op = "trigger_drought"

\* C2: in every reachable state rain_intensity is 0 when is_raining is false
\* and within [0.1, 1.0] when is_raining is true.
C2_IntensityMatchesRain ==
    /\ ~state.is_raining => state.rain_intensity = 0
    /\ state.is_raining => (10 <= state.rain_intensity /\ state.rain_intensity <= 100)

\* C2 witness: after a tick, trigger_rain was called with an intensity below
\* the range and the rain runs at the floor of 0.1
C2_Witness ==
    /\ last_op = "trigger_rain"
    /\ state.tick_count = 1
    /\ state.is_raining
    /\ state.rain_intensity = 10

\* C3: right after every update_state the alert list is exactly the four
\* rules evaluated on the post-tick state (strict thresholds), whatever the
\* list held before.
C3_AlertsAfterTick == PostTick => AlertsMatch(alerts, state)

\* C3 witness: a tick ended with the pressure exactly on 990.00 (no storm
\* warning) and a heat warning raised
C3_Witness ==
    /\ PostTick
    /\ state.pressure = 99000
    /\ CountAlerts(alerts, "HEAT_WARNING") = 1
    /\ CountAlerts(alerts, "STORM_WARNING") = 0

\* C4 as claimed: in every reachable state, also right after an override,
\* the alert list matches the four rules on the current state.
C4_AlertsAlwaysMatch == AlertsMatch(alerts, state)

\* C4 amended: the alert list matches the four rules on the current state
\* in every state produced by construction, reset, update_state or an
\* accepted time-jump.
C4_AlertsMatchUnlessOverridden ==
    last_op \in {"init", "reset", "update_state", "time_jump"}
        => AlertsMatch(alerts, state)

\* C4 witness: an accepted time-jump ended in a frost warning
C4_Witness ==
    /\ last_op = "time_jump"
    /\ CountAlerts(alerts, "FROST_WARNING") = 1
    /\ state.temperature < 200

\* C5: every alert carries the severity of its rule: CRITICAL_DRY is high
\* below 20 and medium from 20 up to 30, STORM_WARNING high, HEAT_WARNING
\* medium, FROST_WARNING critical; after a tick the value it was judged on is
\* the soil moisture of the state.
C5_Severities ==
    \A i \in 1..Len(alerts) :
        LET a == alerts[i]
        IN  /\ a.type = "CRITICAL_DRY" =>
                /\ a.actual_value < 3000
                /\ a.severity = (IF a.actual_value < 2000 THEN "high" ELSE "medium")
                /\ PostTick => a.actual_value = state.soil_moisture
            /\ a.type = "STORM_WARNING" => a.severity = "high"
            /\ a.type = "HEAT_WARNING" => a.severity = "medium"
            /\ a.type = "FROST_WARNING" => a.severity = "critical"

\* C5 witness: a tick left the soil moisture at exactly 20.00 and raised a
\* CRITICAL_DRY alert of severity medium
C5_Witness ==
    /\ PostTick
    /\ state.soil_moisture = 2000
    /\ \E i \in 1..Len(alerts) :
         alerts[i].type = "CRITICAL_DRY" /\ alerts[i].severity = "medium"

\* C6: after every update_state and every accepted time-jump virtual_hour
\* lies in [0, 24).
C6_VirtualHourInDay ==
    PostTick => (0 <= state.virtual_hour /\ state.virtual_hour < 24 * HourUnits)

\* C6 witness: a tick advanced virtual_hour from 23 and wrapped it to 0
C6_Witness ==
    /\ PostTick
    /\ state.virtual_hour = 0
    /\ config.ticks_per_virtual_hour = 1

\* C7: tick_count starts at 0, every update_state adds exactly 1 to it and
\* returns a reading whose simulation_tick is the new tick_count.
C7_TickCount ==
    /\ state.tick_count = 0
    /\ [][ last_op' \in {"update_state", "time_jump"} =>
             /\ state'.tick_count = state.tick_count + 1
             /\ Len(returned') = 1
             /\ returned'[1].simulation_tick = state'.tick_count ]_vars

\* C7 witness: the second tick since construction or reset returned
\* simulation_tick 2
C7_Witness ==
    /\ PostTick
    /\ Len(returned) = 1
    /\ returned[1].simulation_tick = 2

\* C8: a tick that ends dry and at 30 degrees or less does not raise the
\* soil moisture.
C8_DryDecay ==
    [][ ( /\ last_op' \in {"update_state", "time_jump"}
          /\ ~state'.is_raining
          /\ state'.temperature <= 3000 )
        => state'.soil_moisture <= state.soil_moisture ]_vars

\* C8 witness: the first dry, cool tick has dried the soil from 50.00 to 49.75
C8_Witness ==
    /\ PostTick
    /\ ~state.is_raining
    /\ state.temperature <= 3000
    /\ state.soil_moisture = 4975

\* C9: reset() leaves the engine as a fresh one -- every field of the state at
\* its default, the pressure trend 0, no alerts -- and the configuration as
\* it was.
C9_ResetRestoresDefaults ==
    [][ last_op' = "reset" =>
          /\ state' = [ temperature          |-> 2800,
                        humidity             |-> 6500,
                        pressure             |-> 101325,
                        soil_moisture        |-> 5000,
                        rainfall             |-> 0,
                        is_raining           |-> FALSE,
                        rain_intensity       |-> 0,
                        rain_ticks_remaining |-> 0,
                        tick_count           |-> 0,
                        virtual_hour         |-> 180,
                        wind_speed           |-> 500,
                        wind_direction       |-> 18000 ]
          /\ pressure_trend' = 0
          /\ alerts' = << >>
          /\ config' = config ]_vars

\* C9 witness: reset() ran on an engine that ticks and overrides had moved
\* (the reset state is the only one with last_op "reset")
C9_Witness ==
    /\ last_op = "reset"
    /\ state.tick_count = 0
    /\ pressure_trend = 0

\* C10: a tick that follows trigger_drought() ends with exactly one
\* CRITICAL_DRY alert, of severity high, whatever that tick draws.
C10_DroughtThenTick ==
    [][ ( /\ last_op = "trigger_drought"
          /\ last_op' \in {"update_state", "time_jump"} )
        => /\ CountAlerts(alerts', "CRITICAL_DRY") = 1
           /\ \A i \in 1..Len(alerts') :
                alerts'[i].type = "CRITICAL_DRY" => alerts'[i].severity = "high" ]_vars

\* C10 witness: rain started in the tick after the drought (ten ticks drawn,
\* nine left) and lifted the soil from 10.00 to 15.00, still below 20
C10_Witness ==
    /\ PostTick
    /\ state.is_raining
    /\ state.rain_ticks_remaining = 9
    /\ state.soil_moisture = 1500
    /\ CountAlerts(alerts, "CRITICAL_DRY") = 1

\* C12 as claimed: on every tick that ends raining the soil moisture does not
\* decrease, strictly increases when it was below the post-rain ceiling
\* rain_moisture_spike, and is at most the ceiling afterwards.
C12_RainNeverLowersMoisture ==
    [][ ( /\ last_op' \in {"update_state", "time_jump"}
          /\ state'.is_raining )
        => /\ state'.soil_moisture >= state.soil_moisture
           /\ state.soil_moisture < config.rain_moisture_spike
                => state'.soil_moisture > state.soil_moisture
           /\ state'.soil_moisture <= config.rain_moisture_spike ]_vars

\* C12 amended: on every tick that ends raining the soil moisture is at most
\* the ceiling afterwards; when it was at most the ceiling before, it does
\* not decrease, and it strictly increases when it was below the ceiling.
C12_RainRaisesMoistureToCeiling ==
    [][ ( /\ last_op' \in {"update_state", "time_jump"}
          /\ state'.is_raining )
        => /\ state'.soil_moisture <= config.rain_moisture_spike
           /\ state.soil_moisture <= config.rain_moisture_spike
                => state'.soil_moisture >= state.soil_moisture
           /\ state.soil_moisture < config.rain_moisture_spike
                => state'.soil_moisture > state.soil_moisture ]_vars

\* C12 witness: with the default ceiling of 95, rain of intensity 1.0 has
\* started in the first tick and raised the soil from 50.00 to 55.00
C12_Witness ==
    /\ PostTick
    /\ state.is_raining
    /\ state.tick_count = 1
    /\ config.rain_moisture_spike = 9500
    /\ state.soil_moisture = 5500

\* C13: a time-jump request with hours outside [1, 24] is rejected and
\* changes nothing: every field of the state, the pressure trend and the
\* alert list stay as they were, and no tick runs.
C13_RejectedJumpChangesNothing ==
    [][ ( /\ last_op' \in {"time_jump", "time_jump_rejected"}
          /\ (last_args'[1] < 1 \/ last_args'[1] > 24) )
        => /\ last_op' = "time_jump_rejected"
           /\ state' = state
           /\ pressure_trend' = pressure_trend
           /\ alerts' = alerts
           /\ config' = config ]_vars

\* C13 witness: time-jump with hours = 30 was rejected on an engine that has
\* ticked once and has a rain episode under way
C13_Witness ==
    /\ last_op = "time_jump_rejected"
    /\ last_args = <<30>>
    /\ state.tick_count = 1
    /\ state.is_raining

\* C14: an accepted time-jump (hours in [1, 24]) moves virtual_hour to
\* (virtual_hour + hours) mod 24 and then runs exactly one ordinary tick:
\* tick_count grows by exactly 1, virtual_hour advances by one more tick step
\* (wrapping to 0 at 24), rain_ticks_remaining drops by at most 1 and the
\* alert list is the four rules evaluated on the new state.
C14_TimeJumpIsJumpThenTick ==
    [][ last_op' = "time_jump" =>
          LET hours    == last_args'[1]
              jumped   == (state.virtual_hour + hours * HourUnits) % DayUnits
              advanced == jumped + HourUnits \div config.ticks_per_virtual_hour
          IN  /\ 1 <= hours /\ hours <= 24
              /\ state'.tick_count = state.tick_count + 1
              /\ state'.virtual_hour = (IF advanced >= DayUnits THEN 0 ELSE advanced)
              /\ state'.rain_ticks_remaining >= state.rain_ticks_remaining - 1
              /\ AlertsMatch(alerts', state')
              /\ Len(returned') = 1
              /\ returned'[1].simulation_tick = state'.tick_count ]_vars

\* C14 witness: a jump of 17 hours from 06:00 reached 23:00 and the tick that
\* followed wrapped virtual_hour to 0
C14_Witness ==
    /\ last_op = "time_jump"
    /\ last_args = <<17>>
    /\ state.tick_count = 1
    /\ state.virtual_hour = 0

\* C15 as claimed: trigger_rain(intensity, duration), called on the engine or
\* through POST /rain, for every requested intensity and duration (0
\* included) sets is_raining, rain_intensity to the requested intensity
\* clamped to [0.1, 1.0], rain_ticks_remaining to the requested duration,
\* humidity to min(98, humidity + 20) and temperature to temperature - 3.
C15_RainAsRequested ==
    [][ last_op' \in {"trigger_rain", "post_rain"} =>
          /\ state'.is_raining
          /\ state'.rain_intensity = Max(10, Min(100, last_args'[1]))
          /\ state'.rain_ticks_remaining = last_args'[2]
          /\ state'.humidity = Min(9800, state.humidity + 2000)
          /\ state'.temperature = state.temperature - 300 ]_vars

\* a step leaves the fields neither override touches, the pressure trend and
\* the stored alert list as they were
OverrideFrame ==
    /\ state'.tick_count = state.tick_count
    /\ state'.virtual_hour = state.virtual_hour
    /\ state'.pressure = state.pressure
    /\ state'.wind_speed = state.wind_speed
    /\ pressure_trend' = pressure_trend
    /\ alerts' = alerts

\* C16: trigger_drought and trigger_rain are immediate mutations, not ticks.
\* trigger_drought sets soil_moisture 10, humidity 30, is_raining false,
\* rain_intensity 0 and rain_ticks_remaining 0 and leaves the temperature;
\* trigger_rain leaves soil_moisture; both leave tick_count, virtual_hour,
\* pressure, the pressure trend, wind_speed and the stored alert list.
C16_OverridesAreNotTicks ==
    [][ /\ last_op' = "trigger_drought" =>
              /\ state'.soil_moisture = 1000
              /\ state'.humidity = 3000
              /\ ~state'.is_raining
              /\ state'.rain_intensity = 0
              /\ state'.rain_ticks_remaining = 0
              /\ state'.temperature = state.temperature
              /\ OverrideFrame
        /\ last_op' \in {"trigger_rain", "post_rain"} =>
              /\ state'.soil_moisture = state.soil_moisture
              /\ OverrideFrame ]_vars

\* C16 witness: trigger_drought ran after two ticks that had moved the
\* pressure trend and left a heat warning, and no dry alert, in the list
C16_Witness ==
    /\ last_op = "trigger_drought"
    /\ state.tick_count = 2
    /\ pressure_trend # 0
    /\ CountAlerts(alerts, "HEAT_WARNING") = 1
    /\ CountAlerts(alerts, "CRITICAL_DRY") = 0

\* C17 as claimed: a trigger_rain call (on the engine or through POST /rain)
\* whose intensity argument is outside [0, 1] is rejected and leaves the
\* state of the engine as it was.
C17_OutOfRangeIntensityRejected ==
    [][ ( /\ last_op' \in {"trigger_rain", "post_rain"}
          /\ (last_args'[1] < 0 \/ last_args'[1] > 100) )
        => state' = state ]_vars

\* C18 as claimed: an invalid configuration (rain_duration_min above
\* rain_duration_max, ticks_per_virtual_hour <= 0, ...) is refused at
\* construction, so no engine built from one ever has update_state fail.
\* Construction refuses nothing (InitConfig); the formula is what is left of
\* the claim for the engines that exist: none of them fails during a tick.
C18_InvalidConfigNeverFailsATick ==
    config \in InvalidConfigs => last_op # "update_state_raised"

\* C19: with the default configuration update_state is total.  No tick, of
\* the streaming loop or of an accepted time-jump, from any reachable state
\* raises, and the reading it returns satisfies 0 <= humidity <= 100,
\* 0 <= soil_moisture <= 100, rainfall >= 0 and wind_speed >= 0.
C19_DefaultTickIsTotal ==
    config = SimulationConfig =>
        /\ last_op \notin {"update_state_raised", "time_jump_raised"}
        /\ PostTick =>
             /\ Len(returned) = 1
             /\ 0 <= returned[1].humidity /\ returned[1].humidity <= 10000
             /\ 0 <= returned[1].soil_moisture /\ returned[1].soil_moisture <= 10000
             /\ returned[1].rainfall >= 0
             /\ returned[1].wind_speed >= 0

\* C19 witness: with the default configuration the second tick returned a
\* reading taken in rain, with the wind clamped at 0
C19_Witness ==
    /\ config = SimulationConfig
    /\ last_op = "update_state"
    /\ state.tick_count = 2
    /\ Len(returned) = 1
    /\ returned[1].is_raining
    /\ returned[1].wind_speed = 0
    /\ returned[1].rainfall > 0

\* C11: after trigger_rain(intensity, duration) with duration >= n >= 1,
\* is_raining is true after each of the next n update_state calls; and after
\* trigger_rain on a fresh engine of the default configuration with a
\* duration of five or more (trigger_rain(0.8, 30)) and five ticks, the soil
\* moisture is strictly greater than right after the trigger_rain call.
C11_RainLastsItsDuration ==
    observed # << >> =>
        /\ (1 <= observed.ticks /\ observed.ticks <= observed.duration)
              => state.is_raining
        /\ ( /\ observed.ticks = 5
             /\ observed.duration >= 5
             /\ config = SimulationConfig )
              => state.soil_moisture > observed.initial_moisture

\* C11 witness: five ticks after trigger_rain(0.8, 30) on a fresh default
\* engine it still rains, 25 ticks remain and the soil is wetter than it was
C11_Witness ==
    /\ observed # << >>
    /\ observed.intensity = 80 /\ observed.duration = 30
    /\ observed.ticks = 5
    /\ config = SimulationConfig
    /\ state.is_raining
    /\ state.rain_ticks_remaining = 25
    /\ state.soil_moisture > observed.initial_moisture

\* the websocket is connected and its handler is in its loop
Subscribed(w) == handler[w].pc \in {"streaming", "sleeping"}

\* the simulation_tick numbers of the payloads in the sequence q
TicksOf(q) == { q[i].sensors.simulation_tick : i \in 1..Len(q) }

\* C20 as claimed: every tick produces one payload that reaches every
\* subscriber of the farm active at that tick, in increasing tick order and
\* with no tick missing.  For a websocket that is streaming: its payloads
\* carry increasing tick numbers, and every tick sent to a websocket of the
\* same farm since its own first payload has been sent to it too.
C20_EveryTickToEverySubscriber ==
    \A w \in Sockets :
        (Subscribed(w) /\ Len(delivered[w]) > 0) =>
            /\ \A i \in 1..(Len(delivered[w]) - 1) :
                   delivered[w][i].sensors.simulation_tick
                       < delivered[w][i + 1].sensors.simulation_tick
            /\ \A v \in Sockets :
                   handler[v].farm_id = handler[w].farm_id =>
                       \A t \in TicksOf(delivered[v]) :
                           t >= delivered[w][1].sensors.simulation_tick
                               => t \in TicksOf(delivered[w])

\* C21 as claimed: the engine is advanced by exactly one tick driver.  When
\* a tick interval has passed, the shared engine has executed exactly one
\* update_state in it, with no subscriber, one subscriber or several.
C21_OneTickPerInterval ==
    [][interval' # interval => interval_ticks = 1]_vars

\* the engine the handler and the control endpoints of a farm work on:
\* get_simulator() takes no farm_id and returns the one instance of the process
simulator_of(farm_id) ==
    [ state |-> state, alerts |-> alerts, pressure_trend |-> pressure_trend ]

\* C22 as claimed: simulations of different farms are independent.  A tick
\* driven by the handler of a websocket of one farm (a payload is sent on that
\* websocket) leaves the state, the tick number and the alerts of the engine
\* of every other farm that has a subscriber as they were.
C22_FarmsAreIndependent ==
    [][\A w \in Sockets :
          (Subscribed(w) /\ Len(delivered'[w]) > Len(delivered[w])) =>
              \A v \in Sockets :
                  (Subscribed(v) /\ handler[v].farm_id # handler[w].farm_id) =>
                      simulator_of(handler[v].farm_id)'
                          = simulator_of(handler[v].farm_id)]_vars

\* the operations that read or write the engine from outside update_state
OutsideOps == {"trigger_rain", "post_rain", "trigger_drought", "reset",
               "get_state", "update_state_begun"}

\* C23: overrides, state reads and ticks are serialized.  A step of an
\* override, of a state read or of the start of another update_state call is
\* never taken between the rain-state update and the time advance of an
\* update_state call, and the call leaves exactly the state and the reading
\* of one undisturbed tick from the state it began from.
C23_TicksAreSerialized ==
    [][/\ call.phase = "rain_updated" => last_op' \notin OutsideOps
       /\ (call.phase = "rain_updated" /\ call'.phase = "idle")
           => \E r \in { update_state(config, call.before, pressure_trend, call.d) } :
                /\ state' = r.state
                /\ alerts' = r.alerts
                /\ returned' = << r.reading >>]_vars

\* C23 witness: a time-jump request of 17 hours and then a streaming loop
\* have ticked the default engine, and POST /rain came in between
C23_Witness ==
    /\ config = SimulationConfig
    /\ last_op = "update_state"
    /\ state.tick_count = 2
    /\ state.virtual_hour = 23 * HourUnits + 2
    /\ state.is_raining
    /\ state.rain_ticks_remaining = 29
    /\ call.phase = "idle"

\* C24 as claimed: rain_ticks_remaining is a non-negative integer in every
\* reachable state, whatever duration trigger_rain or POST /rain was given.
C24_RainTicksRemainingNonNegative ==
    state.rain_ticks_remaining >= 0

\* C25: with the default configuration and one tick per virtual hour, the
\* greatest minus the least temperature of the readings of 24 consecutive
\* ticks from a fresh engine (and of any longer run, which only widens the
\* range) exceeds 5 degrees, whatever rain the ticks bring.
C25_DiurnalRangeExceedsFive ==
    (config = DiurnalTestConfig /\ observed # << >> /\ observed.ticks >= 24)
        => observed.max_temp - observed.min_temp > 5 * Centi

\* C25 witness: a day of 24 ticks in which rain over the warm hours kept the
\* range of the temperatures below 11 degrees (a dry day spans 14 and more)
C25_Witness ==
    /\ config = DiurnalTestConfig
    /\ observed.ticks = 24
    /\ observed.max_temp - observed.min_temp < 11 * Centi
    /\ state.soil_moisture > 50 * Centi

\* C26: with the default configuration the temperature of the reading of
\* every tick lies strictly between -10 and 50 degrees, at every hour, in any
\* rain state and after any override operations.
C26_TemperatureWithinBounds ==
    (config = SimulationConfig /\ PostTick) =>
        /\ -10 * Centi < returned[1].temperature
        /\ returned[1].temperature < 50 * Centi

\* C26 witness: a tick of the default engine at the coldest hour, in rain
\* forced just before, reported less than 15 degrees
C26_Witness ==
    /\ config = SimulationConfig
    /\ last_op = "time_jump"
    /\ last_args = <<20>>
    /\ state.is_raining
    /\ returned[1].temperature < 15 * Centi

\* C27: for top_n >= 0 and non-negative temperature, humidity and rainfall,
\* get_recommendations returns exactly min(top_n, number of crops) entries,
\* in order of non-increasing feasibility_score, every score in [0, 100].
C27_RecommendationsSortedAndBounded ==
    (last_op \in {"get_recommendations", "get_recommendations_raised"}
        /\ last_args[5] >= 0) =>
        /\ last_op = "get_recommendations"
        /\ Len(returned[1]) = Min(last_args[5], Len(CROP_DATABASE))
        /\ \A i \in 1..(Len(returned[1]) - 1) :
               returned[1][i].feasibility_score >= returned[1][i + 1].feasibility_score
        /\ \A i \in 1..Len(returned[1]) :
               /\ 0 <= returned[1][i].feasibility_score
               /\ returned[1][i].feasibility_score <= 100 * 10

\* C27 witness: with the conditions of test_feasibility_calculation and
\* top_n = 20 the whole database came back, Rice first with a score of 100
\* and Black Pepper last with 76.2
C27_Witness ==
    /\ last_op = "get_recommendations"
    /\ last_args = <<28, 70, 1500, "Alluvial", 20>>
    /\ Len(returned[1]) = 20
    /\ returned[1][1].crop_name = "Rice"
    /\ returned[1][1].feasibility_score = 1000
    /\ returned[1][20].crop_name = "Black Pepper"
    /\ returned[1][20].feasibility_score = 762

\* the step is one update_state call (of the streaming loop, of a caller or
\* of a time-jump) that returned
TickStep ==
    /\ last_op' \in {"update_state", "time_jump"}
    /\ state'.tick_count = state.tick_count + 1

\* C28: the rain countdown law.  A tick from a state with is_raining and
\* rain_ticks_remaining = r >= 0 leaves, when r > 0, is_raining true and
\* r - 1 ticks remaining, and when r = 0, is_raining false with
\* rain_intensity = 0 and rainfall = 0: rain stays on for the next r ticks
\* and stops exactly on tick r + 1.
C28_RainCountdown ==
    [][(TickStep /\ state.is_raining /\ state.rain_ticks_remaining >= 0) =>
          IF state.rain_ticks_remaining > 0
          THEN /\ state'.is_raining
               /\ state'.rain_ticks_remaining = state.rain_ticks_remaining - 1
          ELSE /\ ~state'.is_raining
               /\ state'.rain_intensity = 0
               /\ state'.rainfall = 0
               /\ returned'[1].rainfall = 0
               /\ state'.rain_ticks_remaining = 0]_vars

\* C28 witness: with episodes of one or two ticks, rain that started on the
\* first tick with one tick drawn (it capped the soil moisture at 30) has
\* stopped on the second tick
C28_Witness ==
    /\ config = ThresholdConfig
    /\ last_op = "update_state"
    /\ state.tick_count = 2
    /\ ~state.is_raining
    /\ state.rain_intensity = 0
    /\ state.rainfall = 0
    /\ state.soil_moisture > 29 * Centi
    /\ state.soil_moisture < 30 * Centi

\* C29: a rain episode the state machine started with drawn duration D has
\* is_raining true on exactly D consecutive ticks, counting the tick on which
\* it starts, with rain_duration_min <= D <= rain_duration_max.  While the
\* episode lasts it has not exceeded D ticks and the counter holds the rest;
\* once it has ended it has lasted exactly D ticks.
C29_NaturalEpisodeLastsItsDuration ==
    (observed # << >> /\ observed.drawn > 0) =>
        /\ config.rain_duration_min <= observed.drawn
        /\ observed.drawn <= config.rain_duration_max
        /\ IF observed.ended
           THEN observed.raining_ticks = observed.drawn
           ELSE /\ state.is_raining
                /\ observed.raining_ticks <= observed.drawn
                /\ state.rain_ticks_remaining = observed.drawn - observed.raining_ticks

\* C29 witness: with the default configuration an episode drawn with 10
\* ticks started on the first tick and ended on the eleventh
C29_Witness ==
    /\ config = SimulationConfig
    /\ observed # << >>
    /\ observed.ticks = 11
    /\ observed.drawn = 10
    /\ observed.raining_ticks = 10
    /\ observed.ended
    /\ ~state.is_raining

\* C30: rain cannot restart on the tick on which it stops.  A tick that
\* leaves is_raining true with a counter that was not counted down (a new
\* episode: a duration was drawn on this tick) started from a state with
\* is_raining false, so the tick that ended the episode before left
\* is_raining false and two episodes are separated by such a state.
C30_NoRestartOnTheStoppingTick ==
    [][(TickStep /\ state'.is_raining
          /\ state'.rain_ticks_remaining >= state.rain_ticks_remaining)
             => ~state.is_raining]_vars

\* C30 witness: with episodes of one or two ticks, a one-tick episode on the
\* first tick, a dry second tick and a second episode started on the third
C30_Witness ==
    /\ config = ThresholdConfig
    /\ observed # << >>
    /\ observed.ticks = 3
    /\ observed.episodes = 2
    /\ observed.raining_ticks = 1
    /\ state.is_raining

\* C31: after every tick rainfall equals rain_intensity * 2.5 when is_raining
\* is true and 0 otherwise, from the rain state decided in that tick, so the
\* rainfall after a tick is positive exactly when is_raining is true; the
\* reading carries that rainfall and that is_raining.
C31_RainfallAfterTick ==
    PostTick =>
        /\ state.rainfall = (IF state.is_raining THEN state.rain_intensity * 25 ELSE 0)
        /\ (state.rainfall > 0) <=> state.is_raining
        /\ (returned[1].rainfall > 0) <=> returned[1].is_raining
        /\ returned[1].is_raining = state.is_raining

\* C31 witness: the first tick of a fresh engine started rain, and the
\* rainfall is already that tick's intensity * 2.5
C31_Witness ==
    /\ last_op = "update_state"
    /\ state.tick_count = 1
    /\ rain_calls = 0
    /\ state.is_raining
    /\ state.rainfall = state.rain_intensity * 25
    /\ returned[1].rainfall > 0

\* pressure lies within [base_pressure - pressure_drift_range,
\* base_pressure + pressure_drift_range]
PressureInRange(cfg, st) ==
    /\ cfg.base_pressure - cfg.pressure_drift_range <= st.pressure
    /\ st.pressure <= cfg.base_pressure + cfg.pressure_drift_range

\* C32 as stated: in every reachable state pressure lies within the drift
\* range around base_pressure and the hidden trend within [-1, 1], and a
\* tick changes pressure by at most 0.15 hPa.
C32_PressureWithinDrift ==
    [][ /\ PressureInRange(config, state)
        /\ PressureInRange(config', state')
        /\ -10 <= pressure_trend' /\ pressure_trend' <= 10
        /\ TickStep => /\ state'.pressure - state.pressure <= 15
                       /\ state.pressure - state'.pressure <= 15 ]_vars

\* C32, amended: the hidden trend lies within [-1, 1] in every reachable
\* state; pressure lies within the drift range around base_pressure in every
\* state with at least one tick since construction or the last reset, and in
\* every state when the initial 1013.25 lies within that range; a tick from
\* a pressure within the range changes it by at most 0.15 hPa.
C32_PressureBoundedAfterTick ==
    [][ /\ -10 <= pressure_trend' /\ pressure_trend' <= 10
        /\ (state'.tick_count > 0 \/ PressureInRange(config', WeatherState))
              => PressureInRange(config', state')
        /\ (TickStep /\ PressureInRange(config, state))
              => /\ state'.pressure - state.pressure <= 15
                 /\ state.pressure - state'.pressure <= 15 ]_vars

\* C32 witness: with the trend at its upper clamp a tick has raised a
\* pressure below the baseline by the full 0.15 hPa
C32_Witness ==
    /\ last_op = "update_state"
    /\ config = SimulationConfig
    /\ pressure_trend = 10
    /\ observed # << >>
    /\ state.pressure = observed.pressure_before + 15

\* C33: every payload a subscriber receives is coherent: its alert list is
\* the one the update_state call of its sensor reading computed (the four
\* rules evaluated on that reading), under any interleaving with the other
\* subscribers' ticks and the control requests.
C33_PayloadCoherent ==
    \A w \in Sockets : \A i \in 1..Len(delivered[w]) :
        AlertsMatch(delivered[w][i].alerts, delivered[w][i].sensors)

\* C33 witness: a subscriber holds a payload with a CRITICAL_DRY alert, made
\* by its tick after a drought request, and reset has since emptied the
\* alerts of the engine
C33_Witness ==
    /\ last_op = "reset"
    /\ alerts = << >>
    /\ \E w \in Sockets :
         /\ Len(delivered[w]) > 0
         /\ delivered[w][Len(delivered[w])].sensors.soil_moisture < 3000
         /\ CountAlerts(delivered[w][Len(delivered[w])].alerts, "CRITICAL_DRY") = 1
    /\ \E w \in Sockets : handler[w].pc = "streaming"

\* the websocket is in a set of the connection manager
Registered(w, connections, everyone) ==
    \/ w \in everyone
    \/ \E f \in DOMAIN connections : w \in connections[f]

\* the step starts a send of broadcast_to_farm
SendStarts ==
    /\ call'.phase = "sending"
    /\ IF call.phase = "sending" THEN call'.visited # call.visited ELSE TRUE

C35_NoCountdownWithoutRain == ~state.is_raining => state.rain_ticks_remaining = 0

\* C35 witness: trigger_drought has ended a forced rain of 30 ticks on a
\* fresh engine (the temperature is still 3 degrees down) and the countdown
\* is 0
C35_Witness ==
    /\ last_op = "trigger_drought"
    /\ state.tick_count = 0
    /\ state.temperature = WeatherState.temperature - 3 * Centi
    /\ ~state.is_raining
    /\ state.rain_ticks_remaining = 0

\* rainfall is 0 when is_raining is false and rain_intensity * 2.5 when it
\* is true
RainFieldsConsistent(st) ==
    /\ ~st.is_raining => st.rainfall = 0
    /\ st.is_raining => st.rainfall = st.rain_intensity * 25

\* the rain overrides of the engine
RainOverrides == {"trigger_rain", "post_rain", "trigger_drought"}

\* C36 as stated: the rain fields are consistent in every reachable state,
\* also right after an override and before the next tick: rainfall is 0
\* whenever is_raining is false and rain_intensity * 2.5 whenever it is true.
C36_RainFieldsAlwaysConsistent == RainFieldsConsistent(state)

\* C36, amended: the rain fields are consistent in every state left by the
\* construction, a tick, a time-jump or reset; trigger_rain and
\* trigger_drought leave rainfall as it was, so that until the next tick it
\* is the rainfall of the last tick whatever is_raining and rain_intensity
\* have become.
C36_RainFieldsConsistentOutsideOverrides ==
    [][ /\ last_op' \notin RainOverrides => RainFieldsConsistent(state')
        /\ last_op' \in RainOverrides => state'.rainfall = state.rainfall ]_vars

\* C36 witness: trigger_drought has stopped a rain of intensity 1.0 after its
\* first tick, and the state says is_raining false with a rainfall of 2.5
C36_Witness ==
    /\ last_op = "trigger_drought"
    /\ state.tick_count = 1
    /\ ~state.is_raining
    /\ state.rain_intensity = 0
    /\ state.rainfall = 2500

\* C37: with the default configuration no reachable state has a
\* STORM_WARNING among the alerts: the pressure never falls below 993.25, so
\* the rule pressure < 990 never fires.
C37_NoStormByDefault ==
    config = SimulationConfig
      => /\ state.pressure >= 99325
         /\ CountAlerts(alerts, "STORM_WARNING") = 0

\* C37 witness: a tick that started at the lower end 993.25 of the drift
\* range with the trend at -1 has left the pressure there, without a storm
\* alert
C37_Witness ==
    /\ config = SimulationConfig
    /\ last_op = "update_state"
    /\ observed # << >>
    /\ observed.pressure_before = 99325
    /\ pressure_trend = -10
    /\ state.pressure = 99325
    /\ CountAlerts(alerts, "STORM_WARNING") = 0

\* the sum of get_connection_count(farm_id) over a set of farms
RECURSIVE CountOver(_, _)
CountOver(connections, farms) ==
    IF farms = {} THEN 0
    ELSE LET f == CHOOSE g \in farms : TRUE
         IN  get_connection_count_of(connections, f)
               + CountOver(connections, farms \ {f})

\* C38: under any interleaving of connect and disconnect calls the global
\* set is the union of the sets of the farms, no farm is left with an empty
\* set, and get_connection_count() is the sum of get_connection_count(farm)
\* over the active farms.
C38_ManagerConsistent ==
    /\ all_connections =
         UNION { active_connections[f] : f \in DOMAIN active_connections }
    /\ \A f \in DOMAIN active_connections : active_connections[f] # {}
    /\ get_connection_count(all_connections)
         = CountOver(active_connections, get_active_farms(active_connections))

\* C38 witness: two connections had joined different farms, the handler of
\* the one on farm1 has ended, and farm1 is gone from active_connections
\* while farm2 keeps its connection
C38_Witness ==
    /\ \E w \in Sockets :
         /\ handler[w].pc = "closed"
         /\ handler[w].farm_id = "farm1"
    /\ "farm1" \notin DOMAIN active_connections
    /\ "farm2" \in DOMAIN active_connections
    /\ get_connection_count(all_connections) = 1
    /\ get_connection_count_of(active_connections, "farm1") = 0

\* C39: broadcast_to_farm is safe against concurrent membership changes:
\* when a client of the same farm connects or disconnects while a send of
\* the loop is awaited, the broadcast still completes without an error and
\* has delivered the message to every client that was subscribed at its
\* start and is still connected.
C39_BroadcastCompletes ==
    /\ call.phase # "raised"
    /\ call.phase = "returned"
         => \A w \in call.start :
              (/\ handler[w].pc \in {"streaming", "sleeping"}
               /\ Registered(w, active_connections, all_connections))
                => w \in call.sent

====
